---------------------------- MODULE Spec2Model ----------------------------
(***************************************************************************)
(* Model of at-server.py: the AT transport arbiter (ATConnection), the     *)
(* URC pump (main.monitor_socket), the WebSocket hub (WebSocketServer) and *)
(* the concatenated-SMS reassembly store (ATClient._handle_partial_sms).   *)
(*                                                                         *)
(* The program runs on one asyncio event loop: code between two awaits     *)
(* that really suspend is atomic with respect to the other tasks.  The     *)
(* transports' receive() and send() are coroutines without a suspending    *)
(* await (a blocking recv with a 0.1 s timeout, a serial read), so the     *)
(* response loop of send_command holds the event loop from the write to    *)
(* the terminator or the timeout; only the modem (the environment) moves   *)
(* meanwhile.                                                              *)
(***************************************************************************)
EXTENDS Integers, Sequences, FiniteSets, TLC

(***************************************************************************)
(* Bounds of the model.                                                    *)
(***************************************************************************)
MaxCmds == 2        \* AT commands forwarded in one behaviour
MaxUrc == 2         \* unsolicited lines the modem emits
MaxData == 1        \* response-body bursts the modem emits
MaxReads == 2       \* receive() calls that fit in one response timeout
MaxFill == 102      \* other multipart messages, which never complete
MaxTicks == 1       \* advances of the clock while the store fills
MaxTtlTicks == 2    \* advances of the clock while records age
MaxTtlFill == 2     \* other multipart messages while records age
TickStep == 3601    \* seconds in a long advance of the clock
PauseStep == 1800   \* seconds in a short advance of the clock
NParts == 3         \* parts of the watched multipart message
MaxEvents == 10     \* notification events given to the webhook channel
MaxBurst == 1001    \* send() calls of one burst on the webhook channel
StartTime == 1000   \* time.time() when the webhook task starts
MaxHookSpan == 62   \* seconds the webhook task is followed for
MaxTasks == 2       \* events given to the channel while one send is followed
MaxLines == 4       \* unsolicited lines given to the dispatcher one by one
MaxCallTicks == 3   \* advances of the clock of the URC handlers
CallTick == 15      \* seconds in one such advance
MaxBurstTurns == 3  \* turns of the webhook task during a burst
MaxSchedTurns == 7  \* iterations of the band-lock controller's loop
MaxCrossings == 1   \* boundaries of the night window the clock crosses
MaxDrops == 2       \* times the transport is marked not connected
MaxLinkFlips == 2   \* times the modem's reachability changes
MaxUser == 2        \* commands the sessions forward while the link is followed
MaxBcast == 2       \* broadcasts of the hub
MaxBeat == 2        \* heartbeats of the hub
MaxPdu == 1         \* PDUs given to the decoder
MaxDisp == 3        \* chunks the pump reads while the dispatcher is followed
MaxBuilds == 1      \* calls of a lock-command builder that are followed
MaxRejects == 1     \* connect calls made while another is in flight
MaxFeeds == 4       \* parts with free part numbers given to the reassembly
FeedTotal == 2      \* parts_count of those parts
MaxPartNo == 3      \* the largest part number among them
MaxByte == 3        \* largest value of a header byte that is varied

(***************************************************************************)
(* Program constants.                                                      *)
(***************************************************************************)
MaxResponseSize == 1048576   \* max_response_size = 1024 * 1024
RecvSize == 4096             \* receive(4096), socket.recv(4096)
PartialCap == 100            \* if len(self._partial_messages) > 100
PartialTtl == 3600           \* current_time - timestamp > 3600
max_retries == 3             \* self.max_retries = 3
retry_delay == 1             \* self.retry_delay = 1
send_interval == 60          \* self.send_interval = 60
max_pending_messages == 1000 \* max_pending_messages = 1000
call_timeout == 30           \* self.call_timeout = 30
signal_change_threshold == 1 \* self.signal_change_threshold = 1
check_interval == 60         \* 'CHECK_INTERVAL': 60
timeout == 180               \* 'TIMEOUT': 180
conn_max_retries == 3        \* ATClient: self.max_retries = 3
conn_retry_delay == 5        \* ATClient: self.retry_delay = 5
max_total_retries == 100     \* self.max_total_retries = 100
long_retry_interval == 60    \* long_retry_interval = 60

\* two WebSocket sessions, the concurrent callers of send_command
Sessions == {1, 2}
ConnTypes == {"NETWORK", "SERIAL"}

VARIABLES
    connection_type,     \* ATClient.connection_type
    is_connected,        \* ATConnection.is_connected
    sockOpen,            \* the socket / serial port object exists and is open
    linkUp,              \* environment: the peer is reachable
    command_lock,        \* ATConnection._command_lock: 0 free, else the holder
    pc,                  \* per caller: position inside send_command
    cmd,                 \* per caller: the command being sent
    response,            \* per caller: the local bytearray `response`
    reads,               \* per caller: receive() calls made in this wait
    ret,                 \* per caller: what the last send_command returned
    reply,               \* per caller: the ATResponse sent to the client
    wire,                \* bytes the modem produced, not yet read
    onWire,              \* commands written to the transport, in order
    modemQ,              \* commands the modem has not answered yet
    nCmds, nUrc, nData,  \* counters that bound the behaviour
    readUrcs,            \* unsolicited lines read from the transport
    offered,             \* unsolicited lines offered to MessageProcessor
    lastLine,            \* the last line given to MessageProcessor.process
    ring_received, current_call_state, last_call_number,  \* CallHandler
    callNotifs,          \* CALL notifications handed to notify_all
    callEvents,          \* states of the incoming_call events handed to broadcast
    auth_key,            \* WEBSOCKET_CONFIG['AUTH_KEY']
    ws,                  \* per session: position inside handle_client
    active_connections,  \* WebSocketServer._active_connections
    authFrame,           \* per session: the frame the auth recv() returned
    lastSent,            \* per session: the last frame the server sent
    forwarded,           \* per session: frames given to send_command
    partial_messages,    \* ATClient._partial_messages, in insertion order
    now,                 \* time.time(), seconds since the service started
    smsNotifs,           \* SMS notifications handed to notify_all
    smsEvents,           \* new_sms events handed to broadcast
    fed,                 \* parts of the watched message fed so far, in order
    dropped,             \* keys deleted from the store as expired or oldest
    nFill, nTicks,       \* counters that bound the behaviour
    joinRaised,          \* the last _handle_partial_sms ended in a KeyError
    serial_method,       \* AT_CONFIG["SERIAL"]["METHOD"]
    hook_queue,          \* WeChatNotification._queue
    pending_messages,    \* WeChatNotification._pending_messages
    last_send_time,      \* WeChatNotification._last_send_time
    hookNow,             \* time.time() as the webhook task sees it
    posts,               \* bodies handed to _do_send, in order
    nSent,               \* send() calls made on the webhook channel
    firstSendAt,         \* the time of the first send() call
    allWithin,           \* every send() so far came within one interval
    doSend,              \* one _do_send task: its position and history
    last_call_time,      \* CallHandler.last_call_time
    last_signal_data,    \* NetworkSignalHandler.last_signal_data
    last_sys_mode,       \* NetworkSignalHandler.last_sys_mode
    sigNotifs,           \* SIGNAL notifications handed to notify_all
    notified,            \* MemoryFullHandler.notified
    memNotifs,           \* MEMORY_FULL notifications handed to notify_all
    urcNow,              \* time.time() as the URC handlers see it
    nLines, nCallTicks,  \* counters that bound the behaviour
    lastUrc, prevUrc,    \* the last two lines given to the dispatcher
    gNum, gAt, gEnded,   \* the last ringing notification: number, time, and
                         \* whether a call end (or nothing) came since
    configured,          \* ScheduleFrequencyLock.__init__ has run
    unlock_lte,          \* ScheduleFrequencyLock.unlock_lte
    unlock_nr,           \* ScheduleFrequencyLock.unlock_nr
    toggle_airplane,     \* ScheduleFrequencyLock.toggle_airplane
    day_enabled,         \* ScheduleFrequencyLock.day_enabled
    night_config,        \* the night_* lock settings
    last_service_time,   \* ScheduleFrequencyLock.last_service_time
    is_switching,        \* ScheduleFrequencyLock.is_switching
    switch_count,        \* ScheduleFrequencyLock.switch_count
    current_mode,        \* ScheduleFrequencyLock.current_mode
    schedNow,            \* time.time() as the controller sees it
    inNight,             \* datetime.now() is inside the night window
    nCrossings,          \* boundaries of the window crossed so far
    nTurns,              \* iterations of monitor_loop so far
    polled,              \* the last poll: the answers, its time, the gap
    switched,            \* the last iteration's mode switch and its commands
    recovery,            \* the last iteration's recovery and its commands;
                         \* mode: current_mode at the last recovery that no
                         \* switch has followed
    schedNotifs,         \* notifications the controller handed to notify_all
    started,             \* main has created its monitor tasks
    monitor_tasks,       \* main's monitor_tasks, by name
    reconnecting,        \* ATClient._reconnecting
    connRetries,         \* retries, the local of ATClient.connect
    connPc,              \* where the running ATClient.connect call is
    connCaller,          \* who called it: main or the connection monitor
    connOutcome,         \* how the last ATClient.connect call ended
    attempts,            \* connection.connect() calls of the current call
    lastWait,            \* the last asyncio.sleep(retry_delay) of connect
    modemInit,           \* _init_at_config ran since the transport was opened
    initSent,            \* the commands the last _init_at_config sent
    cnmiSet, cmgfSet,    \* the modem: +CNMI: 2,1,0,2,0 and +CMGF: 0 are set
    lastUse,             \* the last forwarded command: sent, on an initialized modem
    capHit,              \* a connect call of the monitor ended at the cap
    nDrops, nLinkFlips, nUser,  \* counters that bound the behaviour
    loops,               \* retry loops of ATClient.connect that are running
    rejected,            \* connect calls that returned False at their head
    bcast,               \* the last broadcast: sockets seen closed, sends failed
    beat,                \* the last heartbeat: the session and whether it was sent
    nBcast, nBeat,       \* counters that bound the behaviour
    pduIn,               \* the PDU given to read_incoming_sms: UDHI, user data
    partial,             \* partial_info of the result
    nPdu,                \* PDUs decoded so far
    invoked,             \* handlers whose handle() ran for the last line
    cmgrSent,            \* AT+CMGR commands NewSMSHandler issued
    pdcpEvents,          \* pdcp_data events PDCPDataHandler broadcast
    dispLine,            \* the text monitor_socket read last
    raised,              \* process() raised for that text
    rawData,             \* raw_data events monitor_socket broadcast
    pumpAlive,           \* monitor_socket is still in its loop
    nDisp,               \* chunks read so far
    buildIn,             \* the arguments of the last builder call
    buildOut,            \* what it returned, or that it raised
    nBuilds              \* builder calls so far

atVars == <<connection_type, is_connected, sockOpen, linkUp, command_lock, pc,
            cmd, response, reads, ret, reply, wire, onWire, modemQ,
            nCmds, nUrc, nData, readUrcs, offered, lastLine, ring_received,
            current_call_state, last_call_number, callNotifs, callEvents>>
wsVars == <<auth_key, ws, active_connections, authFrame, lastSent, forwarded>>
smsVars == <<partial_messages, now, smsNotifs, smsEvents, fed, dropped,
             nFill, nTicks, joinRaised>>
hookVars == <<hook_queue, pending_messages, last_send_time, hookNow, posts,
              nSent, firstSendAt, allWithin, doSend>>
urcHandlerVars == <<last_call_time, last_signal_data, last_sys_mode, sigNotifs,
                    notified, memNotifs,
                    invoked, cmgrSent, pdcpEvents>>
urcEnvVars == <<urcNow, nLines, nCallTicks, lastUrc, prevUrc, gNum, gAt,
                gEnded>>
urcVars == <<urcHandlerVars, urcEnvVars>>
schedConfig == <<configured, unlock_lte, unlock_nr, toggle_airplane,
                 day_enabled, night_config>>
schedVars == <<schedConfig, last_service_time, is_switching, switch_count,
               current_mode, schedNow, inNight, nCrossings, nTurns, polled,
               switched, recovery, schedNotifs>>
connVars == <<started, monitor_tasks, reconnecting, connRetries, connPc,
              connCaller, connOutcome, attempts, lastWait, modemInit, initSent,
              cnmiSet, cmgfSet, lastUse, capHit, nDrops, nLinkFlips, nUser,
              loops, rejected>>
hubVars == <<bcast, beat, nBcast, nBeat>>
pduVars == <<pduIn, partial, nPdu>>
dispVars == <<dispLine, raised, rawData, pumpAlive, nDisp>>
buildVars == <<buildIn, buildOut, nBuilds>>
cfgVars == <<serial_method>>
lateVars == <<dispVars, buildVars, cfgVars>>
extVars == <<connVars, hubVars, pduVars, lateVars>>
auxVars == <<hookVars, urcVars, schedVars, extVars>>
vars == <<atVars, wsVars, smsVars, auxVars>>

(***************************************************************************)
(* Bytes on the transport.  An item is one CRLF-framed line (or one burst  *)
(* of response body) with its length in bytes; n numbers the unsolicited   *)
(* lines in the order the modem produced them.                             *)
(***************************************************************************)
UrcKinds == {"RING", "CLIP"}
Terminators == {"OK", "ERROR"}

Item(k, n, l) == [kind |-> k, n |-> n, len |-> l]

RECURSIVE ByteLen(_)
ByteLen(s) == IF s = <<>> THEN 0 ELSE Head(s).len + ByteLen(Tail(s))

\* the first `size` bytes of w, in whole items: recv(size) returns at most
\* `size` bytes
RECURSIVE TakeItems(_, _)
TakeItems(w, size) ==
    IF w = <<>> \/ Head(w).len > size THEN <<>>
    ELSE <<Head(w)>> \o TakeItems(Tail(w), size - Head(w).len)

\* chunk[:n] of a bytearray: a line cut in the middle is a fragment
RECURSIVE Slice(_, _)
Slice(chunk, n) ==
    IF chunk = <<>> \/ n <= 0 THEN <<>>
    ELSE IF Head(chunk).len <= n
         THEN <<Head(chunk)>> \o Slice(Tail(chunk), n - Head(chunk).len)
         ELSE <<Item("FRAG", 0, n)>>

Drop(w, k) == SubSeq(w, k + 1, Len(w))

\* the unsolicited lines among the items of s, by number
UrcsOf(s) == {s[i].n : i \in {j \in 1..Len(s) : s[j].kind \in UrcKinds}}
HasKind(s, k) == \E i \in 1..Len(s) : s[i].kind = k


(***************************************************************************)
(* Transports (NetworkATConnection, SerialATConnection).                   *)
(***************************************************************************)
\* receive(4096): the network transport returns at most 4096 bytes, the
\* serial transport everything that is waiting; an error (no socket, a dead
\* peer) is swallowed by handle_connection_error and yields a falsy chunk
Receive(w) ==
    IF ~sockOpen THEN <<>>
    ELSE IF connection_type = "NETWORK" THEN TakeItems(w, RecvSize)
    ELSE w

\* bursts of response body the modem can produce: a network read never
\* returns more than 4096 bytes at once
DataLens == IF connection_type = "NETWORK" THEN {RecvSize}
            ELSE {MaxResponseSize}

UrcLen(k) == IF k = "RING" THEN 8 ELSE 32

(***************************************************************************)
(* ATClient.__init__: the class of self.connection.                        *)
(***************************************************************************)
Methods == {"DIRECT", "TOM_MODEM"}

\* every serial configuration gets the serial class
ConnectionAlwaysSerial(type, method) ==
    IF type = "NETWORK" THEN "NetworkATConnection" ELSE "SerialATConnection"
ConnectionFor(type, method) ==
    IF type = "NETWORK" THEN "NetworkATConnection"
    ELSE IF method = "DIRECT" THEN "SerialATConnection"
    ELSE "TomModemATConnection"

Connection == ConnectionFor(connection_type, serial_method)

(***************************************************************************)
(* ATConnection.send_command                                               *)
(***************************************************************************)
\* the event loop is held by a caller inside its response loop
Busy == \E s \in Sessions : pc[s] = "reading"

\* asyncio.Lock: free to take
LockFreeAlways == TRUE
LockFree == command_lock = 0

\* response.extend(chunk), clamped to max_response_size
AccumulateNoCap(resp, chunk) == resp \o chunk
Accumulate(resp, chunk) ==
    IF ByteLen(resp) + ByteLen(chunk) > MaxResponseSize
    THEN resp \o Slice(chunk, MaxResponseSize - ByteLen(resp))
    ELSE resp \o chunk

Overflows(resp, chunk) == ByteLen(resp) + ByteLen(chunk) > MaxResponseSize

\* b'OK\r\n' in response or b'ERROR\r\n' in response or ...
HasTerminator(resp) == \E i \in 1..Len(resp) : resp[i].kind \in Terminators

\* WebSocketServer._process_command on the returned bytes: success is
\* 'ERROR' not in filtered_response.upper()
ProcessReply(resp) ==
    [success |-> ~HasKind(resp, "ERROR"), empty |-> resp = <<>>]


NoRet == [state |-> "none", len |-> 0, conn |-> FALSE, outcome |-> "none"]
NoReply == [success |-> FALSE, empty |-> FALSE]
Ret(st, resp, conn, outcome) ==
    [state |-> st, len |-> ByteLen(resp), conn |-> conn, outcome |-> outcome]

\* send_command returns `resp` (its local buffer ends with the call) to
\* _process_command, which replies to the client; ret keeps the length of
\* what was returned and is_connected as the call leaves it
Return(s, resp, conn, outcome) ==
    /\ ret' = [ret EXCEPT ![s] = Ret("done", resp, conn, outcome)]
    /\ response' = [response EXCEPT ![s] = <<>>]
    /\ reply' = [reply EXCEPT ![s] = ProcessReply(resp)]
    /\ lastSent' = [lastSent EXCEPT ![s] = "reply"]

\* leaving `async with self._command_lock`
KeepLock(s) == command_lock
Unlock(s) == 0

\* lines 1815-1827: clear the buffer, write the command, start waiting;
\* send() returns False without raising when the write fails
SendAndWait(s, c, open) ==
    /\ onWire' = IF open /\ linkUp THEN Append(onWire, <<s, c>>) ELSE onWire
    /\ modemQ' = IF open /\ linkUp THEN modemQ + 1 ELSE modemQ
    /\ response' = [response EXCEPT ![s] = <<>>]
    /\ reads' = [reads EXCEPT ![s] = 0]
    /\ pc' = [pc EXCEPT ![s] = "reading"]

\* lines 1808-1813: the lock is taken; sleep out the inter-command gap
\* (only after an earlier command) or write at once
AcquireLock(s, c, open) ==
    /\ command_lock' = s
    /\ \E gap \in IF nCmds > 0 THEN BOOLEAN ELSE {FALSE} :
          IF gap
          THEN /\ pc' = [pc EXCEPT ![s] = "gap"]
               /\ response' = [response EXCEPT ![s] = <<>>]
               /\ UNCHANGED <<onWire, modemQ, reads>>
          ELSE SendAndWait(s, c, open)

\* lines 1803-1808: connect if needed, then take the lock or queue for it
SendCommandEnter(s, c) ==
    /\ cmd' = [cmd EXCEPT ![s] = c]
    /\ nCmds' = nCmds + 1
    /\ forwarded' = [forwarded EXCEPT ![s] = @ + 1]
    /\ IF ~is_connected /\ ~linkUp
       THEN /\ sockOpen' = FALSE
            /\ Return(s, <<>>, is_connected, "openfail")
            /\ UNCHANGED <<is_connected, wire, command_lock, pc, onWire,
                           modemQ, reads>>
       ELSE /\ is_connected' = TRUE
            /\ sockOpen' = IF is_connected THEN sockOpen ELSE TRUE
            /\ wire' = IF is_connected THEN wire ELSE <<>>
            /\ ret' = [ret EXCEPT ![s] = NoRet]
            /\ reply' = [reply EXCEPT ![s] = NoReply]
            /\ UNCHANGED lastSent
            /\ IF LockFree
               THEN AcquireLock(s, c, is_connected => sockOpen)
               ELSE /\ pc' = [pc EXCEPT ![s] = "waitlock"]
                    /\ response' = [response EXCEPT ![s] = <<>>]
                    /\ UNCHANGED <<command_lock, onWire, modemQ, reads>>

callVars == <<ring_received, current_call_state, last_call_number, callNotifs,
              callEvents>>
pumpVars == <<readUrcs, offered, lastLine, callVars>>
envCount == <<nUrc, nData>>

\* the lock is released by another caller and this one wakes up
LockGranted(s) ==
    /\ pc[s] = "waitlock" /\ ~Busy /\ LockFree
    /\ AcquireLock(s, cmd[s], sockOpen)
    /\ UNCHANGED <<connection_type, is_connected, sockOpen, linkUp, cmd, ret,
                   reply, wire, nCmds, envCount, pumpVars, wsVars, smsVars, auxVars>>

\* asyncio.sleep(command_interval - time_since_last) is over
GapDone(s) ==
    /\ pc[s] = "gap" /\ ~Busy
    /\ SendAndWait(s, cmd[s], sockOpen)
    /\ UNCHANGED <<connection_type, is_connected, sockOpen, linkUp,
                   command_lock, cmd, ret, reply, wire, nCmds, envCount,
                   pumpVars, wsVars, smsVars, auxVars>>

\* one turn of the response loop, lines 1830-1848
ReceiveStep(s) ==
    /\ pc[s] = "reading" /\ reads[s] < MaxReads
    /\ LET chunk == Receive(wire)
           resp == Accumulate(response[s], chunk)
       IN /\ wire' = Drop(wire, Len(chunk))
          /\ readUrcs' = readUrcs \cup UrcsOf(chunk)
          /\ IF chunk # <<>> /\ Overflows(response[s], chunk)
             THEN /\ pc' = [pc EXCEPT ![s] = "idle"]
                  /\ reads' = [reads EXCEPT ![s] = 0]
                  /\ command_lock' = Unlock(s)
                  /\ Return(s, resp, is_connected, "truncated")
                  /\ UNCHANGED <<auth_key, ws, active_connections, authFrame,
                                 forwarded>>
             ELSE /\ response' = [response EXCEPT ![s] = resp]
                  /\ pc' = [pc EXCEPT ![s] =
                              IF chunk # <<>> /\ HasTerminator(resp)
                              THEN "settle" ELSE "reading"]
                  /\ reads' = [reads EXCEPT ![s] =
                                 IF chunk # <<>> /\ HasTerminator(resp)
                                 THEN 0 ELSE @ + 1]
                  /\ UNCHANGED <<command_lock, ret, reply, wsVars>>
    /\ UNCHANGED <<connection_type, is_connected, sockOpen, linkUp, cmd,
                   onWire, modemQ, nCmds, envCount, offered, lastLine,
                   callVars, smsVars, auxVars>>

\* the 0.1 s wait after the terminator is over: return response (line 1848)
SettleDone(s) ==
    /\ pc[s] = "settle" /\ ~Busy
    /\ pc' = [pc EXCEPT ![s] = "idle"]
    /\ command_lock' = Unlock(s)
    /\ Return(s, response[s], is_connected, "terminated")
    /\ UNCHANGED <<connection_type, is_connected, sockOpen, linkUp, cmd,
                   reads, wire, onWire, modemQ, nCmds, envCount,
                   pumpVars, auth_key, ws, active_connections, authFrame,
                   forwarded, smsVars, auxVars>>

\* is_connected after the response timeout, lines 1857-1866: an empty
\* response marks the transport not connected, a partial one does not
TimeoutMarksNothing(s) == is_connected
TimeoutMarks(s) == IF response[s] = <<>> THEN FALSE ELSE is_connected

\* the response timeout elapses without a terminator, lines 1857-1868: an
\* empty response raises ConnectionError into the handler that sleeps 1 s,
\* a partial one is returned as it is
TimeoutStep(s) ==
    /\ pc[s] = "reading" /\ reads[s] >= 1
    /\ command_lock' = Unlock(s)
    /\ is_connected' = TimeoutMarks(s)
    /\ reads' = [reads EXCEPT ![s] = 0]
    /\ IF response[s] = <<>>
       THEN /\ pc' = [pc EXCEPT ![s] = "failsleep"]
            /\ ret' = [ret EXCEPT ![s] =
                         Ret("failing", <<>>, is_connected', "timeout")]
            /\ UNCHANGED <<response, reply, wsVars>>
       ELSE /\ pc' = [pc EXCEPT ![s] = "idle"]
            /\ Return(s, response[s], is_connected', "timeout")
            /\ UNCHANGED <<auth_key, ws, active_connections, authFrame,
                           forwarded>>
    /\ UNCHANGED <<connection_type, sockOpen, linkUp, cmd, wire,
                   onWire, modemQ, nCmds, envCount, pumpVars, smsVars, auxVars>>

\* asyncio.sleep(1) of the error path is over: return bytearray(), line 1869
FailSleepDone(s) ==
    /\ pc[s] = "failsleep" /\ ~Busy
    /\ pc' = [pc EXCEPT ![s] = "idle"]
    /\ Return(s, <<>>, ret[s].conn, "timeout")
    /\ UNCHANGED <<connection_type, is_connected, sockOpen, linkUp,
                   command_lock, cmd, reads, wire, onWire, modemQ,
                   nCmds, envCount, pumpVars, auth_key, ws,
                   active_connections, authFrame, forwarded, smsVars, auxVars>>

(***************************************************************************)
(* URC pump and dispatcher: main.monitor_socket, MessageProcessor.process, *)
(* CallHandler.                                                            *)
(***************************************************************************)
\* an unsolicited line given to the dispatcher on its own, with what the
\* handlers parse out of it: the caller's number of +CLIP, the system mode
\* and the raw RSRP field of ^HCSQ and ^CERSSI
Urc(k, num, mode, raw) ==
    [kind |-> k, n |-> 0, len |-> 0,
     arg |-> [num |-> num, sys_mode |-> mode, raw |-> raw]]

\* re.search(r'\+CLIP: *"([^"]+)"', line).group(1); the +CLIP lines of the
\* modem of the transport model all carry the number N1
NumberOf(line) ==
    IF "arg" \in DOMAIN Head(line) THEN Head(line).arg.num ELSE "N1"

EndsCall(line) == HasKind(line, "CEND") \/ HasKind(line, "NOCARRIER")

\* CallHandler.can_handle: "RING" in line or line.startswith("+CLIP:") or
\* "^CEND:" in line or "NO CARRIER" in line
CallCanHandle(line) ==
    HasKind(line, "RING") \/ Head(line).kind = "CLIP" \/ EndsCall(line)

\* should_notify of the +CLIP branch, lines 859-863
ShouldNotifyAlways(number, late, state) == TRUE
ShouldNotify(number, late, state) ==
    number # last_call_number \/ late \/ state = "idle"

\* every call end notifies
EndNotifiesAlways == TRUE
\* `if self.last_call_number:`
EndNotifies == last_call_number # "none"

\* CallHandler.handle; `late` says whether more than call_timeout seconds
\* passed since last_call_time
CallHandle(line, late) ==
    IF HasKind(line, "RING")
    THEN /\ ring_received' = TRUE
         /\ current_call_state' = "ringing"
         /\ UNCHANGED <<last_call_number, callNotifs, callEvents,
                        last_call_time>>
    ELSE IF Head(line).kind = "CLIP"
    THEN LET state == IF ring_received THEN current_call_state ELSE "ringing"
             should_notify == /\ NumberOf(line) # ""
                              /\ ShouldNotify(NumberOf(line), late, state)
         IN /\ current_call_state' = state
            /\ last_call_number' = IF should_notify THEN NumberOf(line)
                                   ELSE last_call_number
            /\ last_call_time' = IF should_notify THEN urcNow
                                 ELSE last_call_time
            /\ callNotifs' = IF should_notify THEN callNotifs + 1
                             ELSE callNotifs
            /\ callEvents' = IF should_notify
                             THEN Append(callEvents, "ringing")
                             ELSE callEvents
            /\ UNCHANGED ring_received
    ELSE IF EndsCall(line)
    THEN /\ callNotifs' = IF EndNotifies THEN callNotifs + 1
                          ELSE callNotifs
         /\ callEvents' = IF EndNotifies THEN Append(callEvents, "ended")
                          ELSE callEvents
         /\ last_call_number' = "none"
         /\ last_call_time' = 0
         /\ ring_received' = FALSE
         /\ current_call_state' = "idle"
    ELSE UNCHANGED <<callVars, last_call_time>>

MemKinds == {"CMS322", "MEMORYFULL", "SMMEMFULL"}

\* MemoryFullHandler.can_handle
MemCanHandle(line) == \E k \in MemKinds : HasKind(line, k)

\* `if not self.notified`
MemShouldNotifyAlways == TRUE
MemShouldNotify == ~notified

\* MemoryFullHandler.handle
MemHandle ==
    /\ memNotifs' = IF MemShouldNotify THEN memNotifs + 1 ELSE memNotifs
    /\ notified' = IF MemShouldNotify THEN TRUE ELSE notified

\* NetworkSignalHandler.can_handle
SignalCanHandle(line) == HasKind(line, "CERSSI") \/ HasKind(line, "HCSQ")

\* the RSRP in dBm: ^HCSQ carries it as an offset from -140, ^CERSSI as it is
RsrpOf(item) ==
    IF item.kind = "HCSQ" THEN -140 + item.arg.raw ELSE item.arg.raw

\* current_sys_mode: the mode field of ^HCSQ, "4G/5G" for ^CERSSI
SysModeOf(item) ==
    IF item.kind = "HCSQ" THEN item.arg.sys_mode ELSE "4G/5G"

Abs(x) == IF x < 0 THEN -x ELSE x

\* self.last_signal_data = None
NoSignal == [sys_mode |-> "none", rsrp |-> 0]

\* force_notify, lines 1158-1166
ForceNotifyOnRsrpOnly(rsrp, mode) ==
    \/ last_signal_data = NoSignal
    \/ Abs(rsrp - last_signal_data.rsrp) >= signal_change_threshold
ForceNotify(rsrp, mode) ==
    \/ last_signal_data = NoSignal
    \/ Abs(rsrp - last_signal_data.rsrp) >= signal_change_threshold
    \/ mode # last_sys_mode

\* NetworkSignalHandler.handle: only the first line of the text is parsed
SignalHandle(line) ==
    LET item == Head(line)
        parsed == item.kind \in {"CERSSI", "HCSQ"}
        force_notify == parsed /\ ForceNotify(RsrpOf(item), SysModeOf(item))
    IN /\ sigNotifs' = IF force_notify THEN sigNotifs + 1 ELSE sigNotifs
       /\ last_signal_data' =
              IF force_notify
              THEN [sys_mode |-> SysModeOf(item), rsrp |-> RsrpOf(item)]
              ELSE last_signal_data
       /\ last_sys_mode' = IF force_notify THEN SysModeOf(item)
                           ELSE last_sys_mode

memVars == <<notified, memNotifs>>
sigVars == <<last_signal_data, last_sys_mode, sigNotifs>>

\* NewSMSHandler.can_handle: re.match(r'\+CMTI: "(ME|SM)",(\d+)', line)
NewSmsCanHandle(line) == Head(line).kind = "CMTI"

\* NewSMSHandler.handle: the record is fetched with AT+CMGR=<index>
NewSmsHandle(line) == cmgrSent' = cmgrSent + 1

\* PDCPDataHandler.can_handle: line.startswith("^PDCPDATAINFO:")
PdcpCanHandle(line) == Head(line).kind = "PDCP"

\* PDCPDataHandler.handle: arg.raw is the number of comma-separated fields
PdcpHandle(line) ==
    pdcpEvents' = IF Head(line).arg.raw >= 14 THEN pdcpEvents + 1
                  ELSE pdcpEvents

\* the signal handler is asked before the call handler
HandlersSignalFirst == <<"Signal", "Call", "MemoryFull", "NewSms", "Pdcp">>
\* MessageProcessor.__init__: self.handlers
Handlers == <<"Call", "MemoryFull", "NewSms", "Signal", "Pdcp">>

CanHandle(h, line) ==
    CASE h = "Call" -> CallCanHandle(line)
      [] h = "MemoryFull" -> MemCanHandle(line)
      [] h = "NewSms" -> NewSmsCanHandle(line)
      [] h = "Signal" -> SignalCanHandle(line)
      [] h = "Pdcp" -> PdcpCanHandle(line)

\* the for loop of process(): the handlers from the i-th on, up to the break
RECURSIVE FirstFrom(_, _, _)
FirstFrom(hs, i, line) ==
    IF i > Len(hs) THEN "none"
    ELSE IF CanHandle(hs[i], line) THEN hs[i]
    ELSE FirstFrom(hs, i + 1, line)

\* MessageProcessor.process: handle() of the first handler that accepts
Process(line, late) ==
    LET h == FirstFrom(Handlers, 1, line)
    IN /\ invoked' = IF h = "none" THEN <<>> ELSE <<h>>
       /\ IF h = "Call" THEN CallHandle(line, late)
          ELSE UNCHANGED <<callVars, last_call_time>>
       /\ IF h = "MemoryFull" THEN MemHandle ELSE UNCHANGED memVars
       /\ IF h = "NewSms" THEN NewSmsHandle(line) ELSE UNCHANGED cmgrSent
       /\ IF h = "Signal" THEN SignalHandle(line) ELSE UNCHANGED sigVars
       /\ IF h = "Pdcp" THEN PdcpHandle(line) ELSE UNCHANGED pdcpEvents

\* the pump reads only through an open transport; the network branch also
\* asks for is_connected
PumpCanRead ==
    IF connection_type = "NETWORK"
    THEN Connection = "NetworkATConnection" /\ sockOpen /\ is_connected
    ELSE Connection = "SerialATConnection" /\ sockOpen

\* one turn of monitor_socket that reads, with the raw_data broadcast that
\* follows process()
PumpReadTurn ==
    /\ PumpCanRead
    /\ LET data == Receive(wire)
       IN /\ data # <<>>
          /\ wire' = Drop(wire, Len(data))
          /\ readUrcs' = readUrcs \cup UrcsOf(data)
          /\ offered' = offered \cup UrcsOf(data)
          /\ lastLine' = data
          /\ \E late \in BOOLEAN : Process(data, late)
    /\ rawData' = rawData + 1
    /\ UNCHANGED <<connection_type, is_connected, sockOpen, linkUp,
                   command_lock, pc, cmd, response, reads, ret, reply,
                   onWire, modemQ, nCmds, envCount, wsVars, smsVars, hookVars,
                   schedVars, connVars, hubVars, pduVars, buildVars, cfgVars,
                   dispLine, raised, pumpAlive, nDisp, urcEnvVars>>

\* one turn of monitor_socket that reads data: data.decode().strip() is
\* given to the dispatcher as one line, whatever number of lines it holds
PumpStep ==
    /\ ~Busy /\ PumpCanRead
    /\ LET data == Receive(wire)
       IN /\ data # <<>>
          /\ wire' = Drop(wire, Len(data))
          /\ readUrcs' = readUrcs \cup UrcsOf(data)
          /\ offered' = offered \cup UrcsOf(data)
          /\ lastLine' = data
          /\ \E late \in BOOLEAN : Process(data, late)
    /\ UNCHANGED <<connection_type, is_connected, sockOpen, linkUp,
                   command_lock, pc, cmd, response, reads, ret, reply,
                   onWire, modemQ, nCmds, envCount, wsVars, smsVars, hookVars, schedVars, extVars,
                   urcEnvVars>>

(***************************************************************************)
(* The modem and the link (environment).                                   *)
(***************************************************************************)
envFrame == <<connection_type, is_connected, sockOpen, command_lock, pc, cmd,
              response, reads, ret, reply, onWire, nCmds, pumpVars, wsVars,
              smsVars, auxVars>>

ModemUp == sockOpen /\ linkUp

\* the terminator of the oldest unanswered command
ModemAnswer(k) ==
    /\ ModemUp /\ modemQ > 0
    /\ wire' = Append(wire, Item(k, 0, 6))
    /\ modemQ' = modemQ - 1
    /\ UNCHANGED <<envFrame, linkUp, envCount>>

\* a burst of response body without a terminator
ModemData(l) ==
    /\ ModemUp /\ modemQ > 0 /\ nData < MaxData
    /\ wire' = Append(wire, Item("DATA", 0, l))
    /\ nData' = nData + 1
    /\ UNCHANGED <<envFrame, linkUp, modemQ, nUrc>>

\* the kind of the n-th unsolicited line: an incoming call is reported as
\* RING followed by +CLIP
UrcKind(n) == IF n % 2 = 1 THEN "RING" ELSE "CLIP"

\* an unsolicited line
ModemUrc ==
    /\ ModemUp /\ nUrc < MaxUrc
    /\ wire' = Append(wire, Item(UrcKind(nUrc + 1), nUrc + 1,
                                 UrcLen(UrcKind(nUrc + 1))))
    /\ nUrc' = nUrc + 1
    /\ UNCHANGED <<envFrame, linkUp, modemQ, nData>>

\* the peer becomes unreachable: writes fail, nothing more arrives
LinkDown ==
    /\ linkUp /\ linkUp' = FALSE
    /\ UNCHANGED <<envFrame, wire, modemQ, envCount>>

\* connection.connect(): the serial class opens the port, the helper class
\* only sets its flag
OpenTransport ==
    /\ ~is_connected
    /\ is_connected' = TRUE
    /\ sockOpen' = (Connection # "TomModemATConnection")
    /\ UNCHANGED <<connection_type, linkUp, command_lock, pc, cmd, response,
                   reads, ret, reply, wire, onWire, modemQ, nCmds, envCount,
                   pumpVars, wsVars, smsVars, auxVars>>

\* the unsolicited lines the modem writes while the helper method is followed
PortKinds == {"RING", "CLIP", "NOCARRIER", "CMTI", "SMMEMFULL"}

\* the modem writes an unsolicited line to its port
PortUrc(k) ==
    /\ is_connected /\ nUrc < MaxUrc
    /\ wire' = Append(wire, Item(k, nUrc + 1, UrcLen(k)))
    /\ nUrc' = nUrc + 1
    /\ UNCHANGED <<envFrame, linkUp, modemQ, nData>>

\* send_command on the helper transport: send() runs tom_modem for the
\* command and keeps its output, receive() returns that output once; the
\* output holds the lines the port gave while the helper had it open
HelperCommand(captured) ==
    /\ is_connected /\ Connection = "TomModemATConnection"
    /\ nCmds < MaxCmds
    /\ LET out == IF captured THEN wire ELSE <<>>
       IN /\ wire' = Drop(wire, Len(out))
          /\ readUrcs' = readUrcs \cup UrcsOf(out)
    /\ onWire' = Append(onWire, <<1, "AT">>)
    /\ nCmds' = nCmds + 1
    /\ UNCHANGED <<connection_type, is_connected, sockOpen, linkUp,
                   command_lock, pc, cmd, response, reads, ret, reply, modemQ,
                   envCount, offered, lastLine, callVars, wsVars, smsVars,
                   auxVars>>

(***************************************************************************)
(* WebSocketServer.handle_client                                           *)
(***************************************************************************)
ValidAuth == "{\"auth_key\":\"secret\"}"
WrongAuth == "{\"auth_key\":\"wrong\"}"
Frames == {"ping", "AT+CONNECT?", "AT", ValidAuth, WrongAuth, "{}", "[1]"}
LoopFrames == {"ping", "AT+CONNECT?", "AT"}
AuthKeys == {"", "secret"}

\* json.loads(auth_message)
JsonLoads(m) ==
    CASE m = ValidAuth -> [ok |-> TRUE, dict |-> TRUE, key |-> "secret"]
      [] m = WrongAuth -> [ok |-> TRUE, dict |-> TRUE, key |-> "wrong"]
      [] m = "{}"      -> [ok |-> TRUE, dict |-> TRUE, key |-> ""]
      [] m = "[1]"     -> [ok |-> TRUE, dict |-> FALSE, key |-> ""]
      [] OTHER         -> [ok |-> FALSE, dict |-> FALSE, key |-> ""]

\* client_key != auth_key  (negated)
KeyAcceptedAny(client_key) == TRUE
KeyAccepted(client_key) == client_key = auth_key

\* the session is added before the auth stage
JoinsAlways == TRUE
\* `if auth_key:` is skipped and self._active_connections.add follows
JoinsAtConnect == auth_key = ""

\* a client connects: with a key configured the handler first waits for the
\* auth frame, without one it joins the active set at once
WsConnect(s) ==
    /\ ws[s] \in {"none", "closed"} /\ ~Busy
    /\ ws' = [ws EXCEPT ![s] = IF auth_key # "" THEN "auth" ELSE "open"]
    /\ active_connections' = IF JoinsAtConnect THEN active_connections \cup {s}
                             ELSE active_connections
    /\ authFrame' = [authFrame EXCEPT ![s] = "none"]
    /\ lastSent' = [lastSent EXCEPT ![s] = "none"]
    /\ forwarded' = [forwarded EXCEPT ![s] = 0]
    /\ UNCHANGED <<atVars, auth_key, smsVars, auxVars>>

\* the first frame arrives within 10 s, lines 2349-2389
WsAuth(s, f) ==
    /\ ws[s] = "auth" /\ ~Busy
    /\ authFrame' = [authFrame EXCEPT ![s] = f]
    /\ LET j == JsonLoads(f)
       IN IF ~j.ok
          THEN /\ lastSent' = [lastSent EXCEPT ![s] = "invalid_auth"]
               /\ ws' = [ws EXCEPT ![s] = "closed"]
               /\ UNCHANGED active_connections
          ELSE IF ~j.dict
          THEN /\ ws' = [ws EXCEPT ![s] = "closed"]
               /\ UNCHANGED <<lastSent, active_connections>>
          ELSE IF ~KeyAccepted(j.key)
          THEN /\ lastSent' = [lastSent EXCEPT ![s] = "auth_failed"]
               /\ ws' = [ws EXCEPT ![s] = "closed"]
               /\ UNCHANGED active_connections
          ELSE /\ lastSent' = [lastSent EXCEPT ![s] = "auth_ok"]
               /\ ws' = [ws EXCEPT ![s] = "open"]
               /\ active_connections' = active_connections \cup {s}
    /\ UNCHANGED <<atVars, auth_key, forwarded, smsVars, auxVars>>

\* no frame within 10 s
WsAuthTimeout(s) ==
    /\ ws[s] = "auth" /\ ~Busy
    /\ lastSent' = [lastSent EXCEPT ![s] = "auth_timeout"]
    /\ ws' = [ws EXCEPT ![s] = "closed"]
    /\ UNCHANGED <<atVars, auth_key, active_connections, authFrame, forwarded,
                   smsVars, auxVars>>

\* one frame in the command loop, lines 2400-2406 and _process_command
WsFrame(s, f) ==
    /\ ws[s] = "open" /\ pc[s] = "idle" /\ ~Busy
    /\ IF f = "ping"
       THEN /\ lastSent' = [lastSent EXCEPT ![s] = "pong"]
            /\ UNCHANGED <<atVars, auth_key, ws, active_connections,
                           authFrame, forwarded>>
       ELSE IF f = "AT+CONNECT?"
       THEN /\ reply' = [reply EXCEPT ![s] = [success |-> TRUE,
                                              empty |-> FALSE]]
            /\ lastSent' = [lastSent EXCEPT ![s] = "reply"]
            /\ UNCHANGED <<connection_type, is_connected, sockOpen, linkUp,
                           command_lock, pc, cmd, response, reads, ret, wire,
                           onWire, modemQ, nCmds, envCount, pumpVars,
                           auth_key, ws, active_connections, authFrame,
                           forwarded>>
       ELSE /\ nCmds < MaxCmds
            /\ SendCommandEnter(s, f)
            /\ UNCHANGED <<connection_type, linkUp, envCount, pumpVars,
                           auth_key, ws, active_connections, authFrame>>
    /\ UNCHANGED <<smsVars, auxVars>>

\* the client goes away: ConnectionClosed ends the loop, the finally block
\* discards the session
WsDisconnect(s) ==
    /\ ws[s] = "open" /\ pc[s] = "idle" /\ ~Busy
    /\ ws' = [ws EXCEPT ![s] = "none"]
    /\ active_connections' = active_connections \ {s}
    /\ UNCHANGED <<atVars, auth_key, authFrame, lastSent, forwarded, smsVars, auxVars>>

(***************************************************************************)
(* Multipart SMS reassembly: ATClient._handle_partial_sms.  The store is a *)
(* dict, kept here as the sequence of its records in insertion order.      *)
(***************************************************************************)
\* the text of part p of the watched message
PartText == [p \in 1..NParts |-> <<"text", p>>]
Watched == <<"A", 1>>

KeysOf(store) == {store[i].key : i \in 1..Len(store)}
IndexOf(store, key) == CHOOSE i \in 1..Len(store) : store[i].key = key
RemoveAt(store, i) == SubSeq(store, 1, i - 1) \o SubSeq(store, i + 1, Len(store))

\* no record is dropped for its age
PurgeNothing(store, t) == store

\* lines 2236-2242: drop every record older than an hour
PurgeExpired(store, t) ==
    SelectSeq(store, LAMBDA r : ~(t - r.timestamp > PartialTtl))

\* min(keys, key=timestamp): the first record with the least timestamp
OldestIdx(store) ==
    CHOOSE i \in 1..Len(store) :
        \A j \in 1..Len(store) :
            \/ store[j].timestamp > store[i].timestamp
            \/ store[j].timestamp = store[i].timestamp /\ i <= j

\* lines 2245-2249: the size test precedes the insertion of the new record
EvictOldest(store) ==
    IF Len(store) > PartialCap THEN RemoveAt(store, OldestIdx(store)) ELSE store

\* lines 2251-2258: create the record if the key is new, store the part
StorePart(store, key, sender, part, total, content, t) ==
    LET st == IF key \in KeysOf(store) THEN store
              ELSE Append(store, [key |-> key, sender |-> sender,
                                  parts |-> [i \in {} |-> ""],
                                  total_parts |-> total, timestamp |-> t])
        i == IndexOf(st, key)
        old == st[i].parts
    IN [st EXCEPT ![i].parts =
           [n \in DOMAIN old \cup {part} |-> IF n = part THEN content
                                             ELSE old[n]]]

\* line 2259
IsComplete(rec) == Cardinality(DOMAIN rec.parts) = rec.total_parts

\* the part numbers that are stored
JoinPresent(rec) == DOMAIN rec.parts
\* range(1, total_parts + 1)
JoinRange(rec) == 1..rec.total_parts

\* parts[i] for i in the numbers of S, ascending
RECURSIVE JoinOver(_, _)
JoinOver(parts, S) ==
    IF S = {} THEN <<>>
    ELSE LET i == CHOOSE m \in S : \A n \in S : m <= n
         IN <<parts[i]>> \o JoinOver(parts, S \ {i})

\* parts[i] raises KeyError for a number that was never stored
KeyErrorIn(rec) == ~(JoinRange(rec) \subseteq DOMAIN rec.parts)

\* the parts joined from the last to the first
RECURSIVE JoinDown(_, _)
JoinDown(parts, i) ==
    IF i < 1 THEN <<>> ELSE <<parts[i]>> \o JoinDown(parts, i - 1)

JoinDescending(rec) == JoinDown(rec.parts, rec.total_parts)

\* lines 2260-2263: "".join(parts[i] for i in range(1, total_parts + 1))
FullContent(rec) == JoinOver(rec.parts, JoinRange(rec))

\* _handle_partial_sms as a whole
HandlePartialSms(sender, ref, part, total, content) ==
    LET key == <<sender, ref>>
        kept == EvictOldest(PurgeExpired(partial_messages, now))
        st == StorePart(kept, key, sender, part, total, content, now)
        i == IndexOf(st, key)
    IN /\ dropped' = dropped \cup (KeysOf(partial_messages) \ KeysOf(kept))
       /\ joinRaised' = (IsComplete(st[i]) /\ KeyErrorIn(st[i]))
       /\ IF IsComplete(st[i]) /\ ~KeyErrorIn(st[i])
          THEN /\ smsNotifs' = Append(smsNotifs,
                       [sender |-> sender, content |-> FullContent(st[i])])
               /\ smsEvents' = Append(smsEvents,
                       [sender |-> sender, content |-> FullContent(st[i]),
                        isComplete |-> TRUE])
               /\ partial_messages' = RemoveAt(st, i)
          ELSE /\ partial_messages' = st
               /\ UNCHANGED <<smsNotifs, smsEvents>>

\* one part of the watched message reaches the handler
FedParts == {fed[i] : i \in 1..Len(fed)}

FeedPart(p) ==
    /\ p \in (1..NParts) \ FedParts
    /\ HandlePartialSms(Watched[1], Watched[2], p, NParts, PartText[p])
    /\ fed' = Append(fed, p)
    /\ UNCHANGED <<atVars, wsVars, auxVars, now, nFill, nTicks>>

\* the first part of another two-part message, whose second part never comes
FeedFiller ==
    /\ nFill < MaxFill /\ nTicks = 0
    /\ HandlePartialSms("F", nFill + 1, 1, 2, "f")
    /\ nFill' = nFill + 1
    /\ UNCHANGED <<atVars, wsVars, auxVars, now, fed, nTicks>>

\* time passes
Tick(step) ==
    /\ now' = now + step
    /\ nTicks' = nTicks + 1
    /\ UNCHANGED <<atVars, wsVars, auxVars, partial_messages, smsNotifs, smsEvents, fed,
                   dropped, nFill, joinRaised>>

\* a part of the message <<"B", 1>> with any part number, a repeated one
\* included, reaches the handler
FeedNumbered(p) ==
    /\ HandlePartialSms("B", 1, p, FeedTotal, <<"text", p, Len(fed) + 1>>)
    /\ fed' = Append(fed, p)
    /\ UNCHANGED <<atVars, wsVars, auxVars, now, nFill, nTicks>>

(***************************************************************************)
(* Webhook channel: WeChatNotification.  A job is numbered by the send()   *)
(* call that queued it.                                                    *)
(***************************************************************************)
\* no _do_send task yet; a task holds its position, the local `retries`,
\* the outcomes of its HTTP attempts and the sleeps between them
NoTask == [state |-> "none", retries |-> 0, log |-> <<>>, waits |-> <<>>,
           result |-> "none"]
NewTask == [state |-> "attempt", retries |-> 0, log |-> <<>>, waits |-> <<>>,
            result |-> "none"]

\* the tuple send() queues for the n-th event
Job(n) == [sender |-> "S", content |-> <<"event", n>>, is_memory_full |-> FALSE]

\* _combine_messages: one message is sent in its own form, several as a
\* numbered digest
CombineMessages(messages) ==
    IF Len(messages) = 1
    THEN [form |-> "single", items |-> <<messages[1].content>>]
    ELSE [form |-> "digest",
          items |-> [i \in 1..Len(messages) |-> <<i, messages[i].content>>]]

\* send(): the job is put on the unbounded asyncio.Queue
HookSend ==
    /\ hook_queue' = Append(hook_queue, Job(nSent + 1))
    /\ nSent' = nSent + 1
    /\ firstSendAt' = IF nSent = 0 THEN hookNow ELSE firstSendAt
    /\ allWithin' = (allWithin /\ (nSent = 0 \/
                                   hookNow - firstSendAt < send_interval))
    /\ UNCHANGED <<atVars, wsVars, smsVars, urcVars, schedVars, extVars, pending_messages, last_send_time,
                   hookNow, posts, doSend>>

\* lines 560-565: the pending list takes the job, dropping its oldest entry
\* when it already holds max_pending_messages
AddPending(pending, job) ==
    IF Len(pending) < max_pending_messages THEN Append(pending, job)
    ELSE Append(Tail(pending), job)

\* the batch stays on the list
NotCleared(pending) == pending
\* self._pending_messages.clear()
Cleared(pending) == <<>>

\* the batching test of one turn
DispatchDue(pending, t) ==
    pending # <<>> /\ t - last_send_time >= send_interval

\* one turn of the _process_queue loop: at most one job is taken from the
\* queue (the get waits up to 1 s), the batch goes out when it is due, and
\* the task sleeps 1 s
ProcessQueueTurn ==
    LET got == hook_queue # <<>>
        pending == IF got THEN AddPending(pending_messages, Head(hook_queue))
                   ELSE pending_messages
        current_time == IF got THEN hookNow ELSE hookNow + 1
    IN /\ hook_queue' = IF got THEN Tail(hook_queue) ELSE hook_queue
       /\ IF DispatchDue(pending, current_time)
          THEN /\ posts' = Append(posts, CombineMessages(pending))
               /\ last_send_time' = current_time
               /\ pending_messages' = Cleared(pending)
               /\ doSend' = NewTask
          ELSE /\ pending_messages' = pending
               /\ UNCHANGED <<posts, last_send_time, doSend>>
       /\ hookNow' = current_time + 1
       /\ UNCHANGED <<atVars, wsVars, smsVars, urcVars, schedVars, extVars, nSent, firstSendAt,
                      allWithin>>

\* what one HTTP attempt of _do_send can end in: 200 with errcode 0, another
\* status, a 200 whose body is not JSON, a 200 with another errcode, a
\* network error, the 5 s total timeout
Outcomes == {"ok", "http500", "badjson", "errcode", "neterror", "timeout"}

\* lines 656-659: asyncio.TimeoutError ends the task at once
Abandons(outcome) == outcome = "timeout"

\* line 665: wait_time = self.retry_delay * retries
WaitTimeFlat(retries) == retry_delay
WaitTime(retries) == retry_delay * retries

\* one HTTP attempt of the _do_send task and what the task does with it
Attempt(outcome) ==
    /\ doSend.state = "attempt"
    /\ LET log == Append(doSend.log, outcome)
           retries == doSend.retries + 1
       IN doSend' =
            IF outcome = "ok"
            THEN [doSend EXCEPT !.state = "done", !.log = log,
                                !.result = "sent"]
            ELSE IF Abandons(outcome)
            THEN [doSend EXCEPT !.state = "done", !.log = log,
                                !.result = "abandoned"]
            ELSE IF retries < max_retries
            THEN [doSend EXCEPT !.state = "wait", !.log = log,
                                !.retries = retries,
                                !.waits = Append(@, WaitTime(retries))]
            ELSE [doSend EXCEPT !.state = "done", !.log = log,
                                !.retries = retries, !.result = "dropped"]
    /\ UNCHANGED <<atVars, wsVars, smsVars, urcVars, schedVars, extVars, hook_queue,
                   pending_messages,
                   last_send_time, hookNow, posts, nSent, firstSendAt,
                   allWithin>>

\* asyncio.sleep(wait_time) is over
RetryWaitDone ==
    /\ doSend.state = "wait"
    /\ doSend' = [doSend EXCEPT !.state = "attempt"]
    /\ UNCHANGED <<atVars, wsVars, smsVars, urcVars, schedVars, extVars, hook_queue,
                   pending_messages,
                   last_send_time, hookNow, posts, nSent, firstSendAt,
                   allWithin>>

(***************************************************************************)
(* Unsolicited lines given to the dispatcher one at a time.                *)
(***************************************************************************)
UrcLines ==
    {Urc("RING", "", "", 0), Urc("CLIP", "N1", "", 0), Urc("CLIP", "N2", "", 0),
     Urc("NOCARRIER", "", "", 0), Urc("CEND", "", "", 0),
     Urc("SMMEMFULL", "", "", 0), Urc("CMS322", "", "", 0),
     Urc("HCSQ", "", "LTE", 40), Urc("HCSQ", "", "LTE", 41),
     Urc("HCSQ", "", "NR", 40), Urc("CERSSI", "", "", -100)}

\* monitor_socket read exactly the line u and gave it to process()
UrcLine(u) ==
    /\ nLines < MaxLines
    /\ nLines' = nLines + 1
    /\ lastUrc' = u
    /\ prevUrc' = lastUrc
    /\ Process(<<u>>, urcNow - last_call_time > call_timeout)
    /\ IF u.kind = "CLIP" /\ callNotifs' = callNotifs + 1
       THEN gNum' = u.arg.num /\ gAt' = urcNow /\ gEnded' = FALSE
       ELSE IF u.kind \in {"CEND", "NOCARRIER"}
       THEN gEnded' = TRUE /\ UNCHANGED <<gNum, gAt>>
       ELSE UNCHANGED <<gNum, gAt, gEnded>>
    /\ UNCHANGED <<connection_type, is_connected, sockOpen, linkUp,
                   command_lock, pc, cmd, response, reads, ret, reply, wire,
                   onWire, modemQ, nCmds, envCount, readUrcs, offered,
                   lastLine, wsVars, smsVars, hookVars, schedVars, extVars, urcNow, nCallTicks>>

\* time passes between two lines
CallClockTick ==
    /\ nCallTicks < MaxCallTicks
    /\ nCallTicks' = nCallTicks + 1
    /\ urcNow' = urcNow + CallTick
    /\ UNCHANGED <<atVars, wsVars, smsVars, hookVars, schedVars, extVars, urcHandlerVars, nLines,
                   lastUrc, prevUrc, gNum, gAt, gEnded>>

(***************************************************************************)
(* ScheduleFrequencyLock: the day/night band-lock controller and its       *)
(* no-service recovery.  One task runs monitor_loop; the fields of the     *)
(* controller are touched by that task only, so one iteration of the loop  *)
(* is one action.  The controller's AT commands go through send_command,   *)
(* which never raises; here only what was sent and how long the scripted   *)
(* waits took is kept.                                                     *)
(***************************************************************************)
\* a comma-separated str, held by its non-blank fields, and a Python list
Str(parts) == [type |-> "str", parts |-> parts]
List(parts) == [type |-> "list", parts |-> parts]

\* [b.strip() for b in bands.split(',') if b.strip()]: only a str has split
Split(v) ==
    IF v.type = "str" THEN [raised |-> FALSE, parts |-> v.parts]
    ELSE [raised |-> TRUE, parts |-> <<>>]

\* name=arg for an empty band list, name=arg,0,n,"bands"[,"arfcns"...] otherwise
LockCmd(name, arg, bands, arfcns, scs, pcis) ==
    [name |-> name, arg |-> arg, n |-> Len(bands), bands |-> bands,
     arfcns |-> arfcns, scs |-> scs, pcis |-> pcis]
AtCmd(name, arg, bands) == LockCmd(name, arg, bands, <<>>, <<>>, <<>>)
Cfun(fun) == AtCmd("AT+CFUN", fun, <<>>)
LteUnlock == AtCmd("AT^LTEFREQLOCK", 0, <<>>)
NrUnlock == AtCmd("AT^NRFREQLOCK", 0, <<>>)

Built(c) == [raised |-> FALSE, cmd |-> c]
BuildRaised == [raised |-> TRUE, cmd |-> AtCmd("", 0, <<>>)]

\* int(token): the value of a numeric token; int("x") raises ValueError
Numeric(t) == t # "x"
IntOf(t) ==
    CASE t = "3" -> 3 [] t = "41" -> 41 [] t = "99" -> 99
      [] t = "1300" -> 1300 [] t = "5000" -> 5000 [] t = "40000" -> 40000
      [] t = "0" -> 0 [] t = "1" -> 1 [] t = "2" -> 2
      [] OTHER -> -1

\* band_ranges of _is_valid_lte_band_arfcn_pair: <<band, min, max>>
LteBandRanges ==
    {<<1, 0, 599>>, <<2, 600, 1199>>, <<3, 1200, 1949>>, <<4, 1950, 2399>>,
     <<5, 2400, 2649>>, <<7, 2750, 3449>>, <<8, 3450, 3799>>,
     <<12, 5010, 5179>>, <<13, 5180, 5279>>, <<17, 5730, 5849>>,
     <<18, 5850, 5999>>, <<19, 6000, 6149>>, <<20, 6150, 6449>>,
     <<25, 8040, 8689>>, <<26, 8690, 9039>>, <<28, 9210, 9659>>,
     <<38, 37750, 38249>>, <<39, 38250, 38649>>, <<40, 38650, 39649>>,
     <<41, 39650, 41589>>, <<42, 41590, 43589>>, <<43, 43590, 45589>>,
     <<66, 66436, 67335>>}
\* band_ranges of _is_valid_nr_band_arfcn_pair
NrBandRanges ==
    {<<1, 0, 599>>, <<3, 1200, 1949>>, <<5, 2400, 2649>>, <<7, 2750, 3449>>,
     <<8, 3450, 3799>>, <<12, 5010, 5179>>, <<20, 6150, 6449>>,
     <<25, 8040, 8689>>, <<28, 9210, 9659>>, <<34, 20167, 20265>>,
     <<38, 37750, 38249>>, <<39, 38250, 38649>>, <<40, 38650, 39649>>,
     <<41, 39650, 41589>>, <<42, 41590, 43589>>, <<43, 43590, 45589>>,
     <<48, 55240, 56739>>, <<66, 66436, 67335>>, <<71, 132600, 133189>>,
     <<77, 620000, 680000>>, <<78, 620000, 680000>>, <<79, 440000, 500000>>,
     <<257, 2016667, 2079166>>, <<258, 2016667, 2079166>>,
     <<260, 2016667, 2079166>>, <<261, 2016667, 2079166>>}

\* _is_valid_*_band_arfcn_pair: a band the table does not hold passes
IsValidPair(ranges, band, arfcn) ==
    \A r \in ranges : r[1] = band => (r[2] <= arfcn /\ arfcn <= r[3])

Min(a, b) == IF a < b THEN a ELSE b
\* _validate_*_band_arfcn_pairs: zip(bands, arfcns); ValueError gives False
ValidatePairs(ranges, bands, arfcns) ==
    \A i \in 1..Min(Len(bands), Len(arfcns)) :
        /\ Numeric(bands[i]) /\ Numeric(arfcns[i])
        /\ IsValidPair(ranges, IntOf(bands[i]), IntOf(arfcns[i]))

\* _auto_detect_scs_types: '0' for n28 and n71, '1' otherwise and on ValueError
AutoDetectScs(bands) ==
    [i \in 1..Len(bands) |->
        IF Numeric(bands[i]) /\ IntOf(bands[i]) \in {28, 71} THEN "0" ELSE "1"]

\* _build_lte_command
BuildLteCommand(lock_type, bands, arfcns, pcis) ==
    IF lock_type = 0 THEN Built(LteUnlock)
    ELSE IF lock_type \in {1, 2, 3} THEN
        IF Split(bands).raised THEN BuildRaised
        ELSE LET band_list == Split(bands).parts
                 arfcn_list == Split(arfcns).parts
                 pci_list == Split(pcis).parts
             IN  IF lock_type = 3
                 THEN IF band_list = <<>> THEN Built(LteUnlock)
                      ELSE Built(AtCmd("AT^LTEFREQLOCK", 3, band_list))
                 ELSE IF \/ band_list = <<>> \/ arfcn_list = <<>>
                         \/ Len(band_list) # Len(arfcn_list)
                         \/ lock_type = 2 /\ (\/ pci_list = <<>>
                                               \/ Len(arfcn_list) # Len(pci_list))
                 THEN Built(LteUnlock)
                 ELSE IF ~ValidatePairs(LteBandRanges, band_list, arfcn_list)
                 THEN Built(LteUnlock)
                 ELSE Built(LockCmd("AT^LTEFREQLOCK", lock_type, band_list,
                                    arfcn_list, <<>>,
                                    IF lock_type = 2 THEN pci_list ELSE <<>>))
    ELSE Built(LteUnlock)

\* _build_nr_command
BuildNrCommand(lock_type, bands, arfcns, scs_types, pcis) ==
    IF lock_type = 0 THEN Built(NrUnlock)
    ELSE IF lock_type \in {1, 2, 3} THEN
        IF Split(bands).raised THEN BuildRaised
        ELSE LET band_list == Split(bands).parts
                 arfcn_list == Split(arfcns).parts
                 given == Split(scs_types).parts
                 pci_list == Split(pcis).parts
                 scs_list == IF given = <<>> THEN AutoDetectScs(band_list)
                             ELSE given
             IN  IF lock_type = 3
                 THEN IF band_list = <<>> THEN Built(NrUnlock)
                      ELSE Built(AtCmd("AT^NRFREQLOCK", 3, band_list))
                 ELSE IF \/ band_list = <<>> \/ arfcn_list = <<>>
                         \/ Len(band_list) # Len(arfcn_list)
                         \/ lock_type = 2 /\ (\/ pci_list = <<>>
                                               \/ Len(arfcn_list) # Len(pci_list))
                 THEN Built(NrUnlock)
                 ELSE IF scs_list = <<>> \/ Len(scs_list) # Len(band_list)
                 THEN Built(NrUnlock)
                 ELSE IF ~ValidatePairs(NrBandRanges, band_list, arfcn_list)
                 THEN Built(NrUnlock)
                 ELSE Built(LockCmd("AT^NRFREQLOCK", lock_type, band_list,
                                    arfcn_list, scs_list,
                                    IF lock_type = 2 THEN pci_list ELSE <<>>))
    ELSE Built(NrUnlock)

\* the arguments a builder is followed with: bands as the str its signature
\* names or as the list set_frequency_lock hands it
BuildBands == {<<>>, <<"3">>, <<"3", "41">>, <<"99">>, <<"x">>}
BuildArfcns == {<<>>, <<"1300">>, <<"1300", "40000">>, <<"5000">>}
BuildScs == {<<>>, <<"1">>, <<"1", "1">>}
BuildPcis == {<<>>, <<"1">>, <<"1", "2">>}
BuildInputs ==
    [rat : {"lte", "nr"}, lock_type : 0..4,
     bands : {Str(b) : b \in BuildBands}
             \cup {List(b) : b \in BuildBands \ {<<>>}},
     arfcns : {Str(a) : a \in BuildArfcns},
     scs_types : {Str(c) : c \in BuildScs},
     pcis : {Str(c) : c \in BuildPcis}]
NoBuild == [rat |-> "none", lock_type |-> 0, bands |-> Str(<<>>),
            arfcns |-> Str(<<>>), scs_types |-> Str(<<>>), pcis |-> Str(<<>>)]

\* one call of _build_lte_command or _build_nr_command
BuildCommand(in) ==
    /\ buildIn' = in
    /\ buildOut' = IF in.rat = "lte"
                   THEN BuildLteCommand(in.lock_type, in.bands, in.arfcns,
                                        in.pcis)
                   ELSE BuildNrCommand(in.lock_type, in.bands, in.arfcns,
                                       in.scs_types, in.pcis)
    /\ nBuilds' = nBuilds + 1
    /\ UNCHANGED <<atVars, wsVars, smsVars, hookVars, urcVars, schedVars,
                   connVars, hubVars, pduVars, dispVars, cfgVars>>

LockConfig(lte_type, lte_bands, nr_type, nr_bands) ==
    [lte_type |-> lte_type, lte_bands |-> Str(lte_bands),
     nr_type |-> nr_type, nr_bands |-> Str(nr_bands)]
\* unlock_config of monitor_loop
UnlockConfig == LockConfig(0, <<>>, 0, <<>>)
\* the day_* settings as load_config defaults them: type 3, no bands
DayConfig == LockConfig(3, <<>>, 3, <<>>)
\* night_* settings the controller is configured with
NightConfigs ==
    { LockConfig(3, <<"3", "41">>, 0, <<>>),
      LockConfig(0, <<>>, 3, <<"78">>),
      LockConfig(0, <<>>, 0, <<>>) }

\* one step of set_frequency_lock: what it sent and the waits that followed
StepOf(sent, elapsed) == [raised |-> FALSE, sent |-> sent, elapsed |-> elapsed]
StepRaised == [raised |-> TRUE, sent |-> <<>>, elapsed |-> 0]

\* step 1: AT+CFUN=0, then 2 s if the modem answered OK
AirplaneOn(cfunOk) ==
    IF toggle_airplane
    THEN StepOf(<<Cfun(0)>>, IF cfunOk THEN 2 ELSE 0)
    ELSE StepOf(<<>>, 0)

\* step 2: the caller splits lte_bands and hands the list to the builder
LteStep(config) ==
    IF config.lte_type > 0 THEN
        IF Split(config.lte_bands).parts # <<>>
        THEN LET bands_list == List(Split(config.lte_bands).parts)
                 command == BuildLteCommand(config.lte_type, bands_list,
                                            Str(<<>>), Str(<<>>))
             IN  IF command.raised THEN StepRaised
                 ELSE StepOf(<<command.cmd>>, 1)
        ELSE StepOf(<<>>, 0)
    ELSE IF unlock_lte THEN StepOf(<<LteUnlock>>, 1)
    ELSE StepOf(<<>>, 0)

\* step 3: the same for NR
NrStep(config) ==
    IF config.nr_type > 0 THEN
        IF Split(config.nr_bands).parts # <<>>
        THEN LET bands_list == List(Split(config.nr_bands).parts)
                 command == BuildNrCommand(config.nr_type, bands_list,
                                           Str(<<>>), Str(<<>>), Str(<<>>))
             IN  IF command.raised THEN StepRaised
                 ELSE StepOf(<<command.cmd>>, 1)
        ELSE StepOf(<<>>, 0)
    ELSE IF unlock_nr THEN StepOf(<<NrUnlock>>, 1)
    ELSE StepOf(<<>>, 0)

\* step 4: AT+CFUN=1, then 3 s
AirplaneOff ==
    IF toggle_airplane THEN StepOf(<<Cfun(1)>>, 3) ELSE StepOf(<<>>, 0)

NoRun == [ran |-> FALSE, sent |-> <<>>, elapsed |-> 0, notified |-> FALSE]
\* set_frequency_lock: an exception ends the sequence where it is raised, is
\* logged, and the notification is not sent; finally clears is_switching
SetFrequencyLock(config, cfunOk) ==
    IF is_switching THEN NoRun
    ELSE LET a == AirplaneOn(cfunOk)
             l == LteStep(config)
             r == NrStep(config)
             z == AirplaneOff
         IN  IF l.raised
             THEN [ran |-> TRUE, sent |-> a.sent, elapsed |-> a.elapsed,
                   notified |-> FALSE]
             ELSE IF r.raised
             THEN [ran |-> TRUE, sent |-> a.sent \o l.sent,
                   elapsed |-> a.elapsed + l.elapsed, notified |-> FALSE]
             ELSE [ran |-> TRUE, sent |-> a.sent \o l.sent \o r.sent \o z.sent,
                   elapsed |-> a.elapsed + l.elapsed + r.elapsed + z.elapsed,
                   notified |-> TRUE]

\* is_night_time: whether datetime.now() falls in the configured window
IsNightTime == inNight

\* get_current_mode, night_enabled as configured by default
GetCurrentMode ==
    IF IsNightTime THEN "night"
    ELSE IF day_enabled THEN "day"
    ELSE "none"

\* get_lock_config_for_mode
GetLockConfigForMode(mode) ==
    IF mode = "night" THEN night_config
    ELSE IF mode = "day" THEN DayConfig
    ELSE UnlockConfig

\* what the modem answers to AT+CREG? and AT+CEREG?: <n>,<stat>
Answers == {"0,1", "0,5", "0,2"}
\* '+CREG: 0,1' in response_text or '+CREG: 0,5' in response_text
Registered(answer) == answer \in {"0,1", "0,5"}
\* check_network_status: AT+CEREG? is sent only when AT+CREG? showed nothing
CheckNetworkStatus(creg, cereg) == Registered(creg) \/ Registered(cereg)

RecoveryDueLate(no_service_duration) == no_service_duration > timeout
\* if no_service_duration >= self.timeout
RecoveryDue(no_service_duration) == no_service_duration >= timeout

\* ScheduleFrequencyLock.__init__ with the settings read from SCHEDULE_CONFIG
ScheduleInit ==
    /\ ~configured
    /\ configured' = TRUE
    /\ unlock_lte' \in BOOLEAN
    /\ unlock_nr' \in BOOLEAN
    /\ toggle_airplane' \in BOOLEAN
    /\ day_enabled' \in BOOLEAN
    /\ night_config' \in NightConfigs
    /\ last_service_time' = schedNow
    /\ is_switching' = FALSE
    /\ switch_count' = 0
    /\ current_mode' = "none"
    /\ inNight' \in BOOLEAN
    /\ UNCHANGED <<atVars, wsVars, smsVars, hookVars, urcVars, extVars, schedNow,
                   nCrossings, nTurns, polled, switched, recovery,
                   schedNotifs>>

\* the wall clock crosses night_start or night_end
ClockCrosses ==
    /\ configured
    /\ inNight' = ~inNight
    /\ nCrossings' = nCrossings + 1
    /\ UNCHANGED <<atVars, wsVars, smsVars, hookVars, urcVars, extVars, schedConfig,
                   last_service_time, is_switching, switch_count,
                   current_mode, schedNow, nTurns, polled, switched, recovery,
                   schedNotifs>>

Count(run) == IF run.ran THEN 1 ELSE 0
Notified(run) == IF run.notified THEN 1 ELSE 0

\* every poll with a target mode switches
ModeChangedAlways(target_mode) == target_mode # "none"
\* if target_mode and target_mode != self.current_mode
ModeChanged(target_mode) ==
    target_mode # "none" /\ target_mode # current_mode

\* the recovery forgets the applied mode
ModeResetByRecovery(mode, due) == IF due THEN "none" ELSE mode
\* the recovery branch (lines 1745-1756) does not assign self.current_mode
ModeAfterRecovery(mode, due) == mode

\* one iteration of the while loop of monitor_loop, up to and including the
\* sleep of check_interval
MonitorTurn(creg, cereg, cfunOk) ==
    /\ configured
    /\ LET target_mode == GetCurrentMode
           toMode == ModeChanged(target_mode)
           toNone == target_mode = "none" /\ current_mode # "none"
           sw == IF toMode
                 THEN SetFrequencyLock(GetLockConfigForMode(target_mode), cfunOk)
                 ELSE IF toNone THEN SetFrequencyLock(UnlockConfig, cfunOk)
                 ELSE NoRun
           polledAt == schedNow + sw.elapsed
           has_service == CheckNetworkStatus(creg, cereg)
           no_service_duration == polledAt - last_service_time
           due == ~has_service /\ RecoveryDue(no_service_duration)
           rec == IF due THEN SetFrequencyLock(UnlockConfig, cfunOk) ELSE NoRun
           done == polledAt + rec.elapsed
       IN  /\ current_mode' = ModeAfterRecovery(
                                  IF toMode \/ toNone THEN target_mode
                                  ELSE current_mode, due)
           /\ last_service_time' = IF has_service THEN polledAt
                                   ELSE IF due THEN done
                                   ELSE last_service_time
           /\ switch_count' = switch_count + Count(sw) + Count(rec)
           /\ is_switching' = FALSE
           /\ schedNotifs' = schedNotifs + Notified(sw) + Notified(rec)
           /\ schedNow' = done + check_interval
           /\ polled' = [creg |-> creg, cereg |-> cereg, at |-> polledAt,
                         gap |-> no_service_duration]
           /\ switched' = [ran |-> sw.ran, mode |-> target_mode, sent |-> sw.sent]
           /\ recovery' = [ran |-> rec.ran, sent |-> rec.sent,
                           done |-> IF due THEN done ELSE recovery.done,
                           mode |-> IF rec.ran THEN current_mode'
                                    ELSE IF sw.ran THEN "none"
                                    ELSE recovery.mode]
    /\ nTurns' = nTurns + 1
    /\ UNCHANGED <<atVars, wsVars, smsVars, hookVars, urcVars, extVars, schedConfig,
                   inNight, nCrossings>>

(***************************************************************************)
(* ATClient.connect, ATClient._init_at_config, main and its connection     *)
(* monitor.  Opening the transport succeeds exactly when the peer is       *)
(* reachable (linkUp).  _init_at_config sends its commands through         *)
(* send_command on the transport just opened; what it sent is kept.        *)
(***************************************************************************)
atLink == <<is_connected, sockOpen, linkUp>>
atRest == <<connection_type, command_lock, pc, cmd, response, reads, ret,
            reply, wire, onWire, modemQ, nCmds, nUrc, nData, readUrcs, offered,
            lastLine, ring_received, current_call_state, last_call_number,
            callNotifs, callEvents>>
connRest == <<atRest, wsVars, smsVars, hookVars, urcVars, schedVars, hubVars,
              pduVars, lateVars>>

\* the tasks main creates: the band-lock controller's create_task is commented out
MonitorTasks == {"connection_monitor", "monitor_socket"}

\* _init_at_config: two queries, then the settings not yet in force, then AT+CLIP=1
InitAtConfig(cnmi, cmgf) ==
    <<"AT+CNMI?", "AT+CMGF?">>
    \o (IF cnmi THEN <<>> ELSE <<"AT+CNMI=2,1,0,2,0">>)
    \o (IF cmgf THEN <<>> ELSE <<"AT+CMGF=0">>)
    \o <<"AT+CLIP=1">>

BackoffFlat(retries) == long_retry_interval
\* retry_delay of connect after the retries-th failure
BackoffDelay(retries) ==
    IF retries <= conn_max_retries THEN conn_retry_delay * retries
    ELSE long_retry_interval

\* if retries >= self.max_total_retries: raise ConnectionError
GivesUp(retries) == retries >= max_total_retries

ReconnectingStuck == TRUE
\* finally: self._reconnecting = False
ReconnectingAfter == FALSE

\* the flag is never seen set
NeverReconnecting == FALSE
\* if self._reconnecting: return False
AlreadyReconnecting == reconnecting

\* the head of ATClient.connect, up to its first connection.connect()
ConnectBegin(caller) ==
    /\ ~AlreadyReconnecting
    /\ reconnecting' = TRUE
    /\ loops' = loops + 1
    /\ connRetries' = 0 /\ attempts' = 0
    /\ connPc' = "attempt"
    /\ connCaller' = caller
    /\ connOutcome' = "none"
    /\ UNCHANGED <<atLink, connRest, started, monitor_tasks, lastWait,
                   modemInit, initSent, cnmiSet, cmgfSet, lastUse, capHit,
                   nDrops, nLinkFlips, nUser, rejected>>

\* main: await client.connect()
MainConnect ==
    /\ ~started /\ connCaller = "none"
    /\ ConnectBegin("main")

\* connection_monitor: if not client.is_connected and not client._reconnecting;
\* while connect runs the monitor is inside it, otherwise it sleeps 30 s
MonitorCheck ==
    /\ "connection_monitor" \in monitor_tasks
    /\ connPc = "idle"
    /\ ~is_connected /\ ~reconnecting
    /\ ConnectBegin("monitor")

\* one pass of the while loop of connect: connection.connect(), then either
\* _init_at_config and return True (main then creates its monitor tasks), or
\* the except branch: count, give up at the cap, else choose the wait
ConnectAttempt ==
    /\ connPc = "attempt"
    /\ attempts' = attempts + 1
    /\ IF linkUp
       THEN /\ is_connected' = TRUE /\ sockOpen' = TRUE
            /\ initSent' = InitAtConfig(cnmiSet, cmgfSet)
            /\ cnmiSet' = TRUE /\ cmgfSet' = TRUE
            /\ modemInit' = TRUE
            /\ connRetries' = 0
            /\ reconnecting' = ReconnectingAfter
            /\ loops' = loops - 1
            /\ connPc' = "idle"
            /\ connOutcome' = "ok"
            /\ IF connCaller = "main"
               THEN started' = TRUE /\ monitor_tasks' = MonitorTasks
               ELSE UNCHANGED <<started, monitor_tasks>>
            /\ UNCHANGED <<lastWait, capHit>>
       ELSE /\ sockOpen' = FALSE
            /\ connRetries' = connRetries + 1
            /\ IF GivesUp(connRetries + 1)
               THEN /\ reconnecting' = ReconnectingAfter
                    /\ loops' = loops - 1
                    /\ connPc' = "idle"
                    /\ connOutcome' = "error"
                    /\ capHit' = (capHit \/ connCaller = "monitor")
                    /\ UNCHANGED lastWait
               ELSE /\ lastWait' = BackoffDelay(connRetries + 1)
                    /\ connPc' = "wait"
                    /\ UNCHANGED <<reconnecting, connOutcome, capHit, loops>>
            /\ UNCHANGED <<is_connected, initSent, cnmiSet, cmgfSet, modemInit,
                           started, monitor_tasks>>
    /\ UNCHANGED <<linkUp, connRest, connCaller, lastUse, nDrops, nLinkFlips,
                   nUser, rejected>>

\* await asyncio.sleep(retry_delay) is over
ConnectWaitDone ==
    /\ connPc = "wait"
    /\ connPc' = "attempt"
    /\ UNCHANGED <<atLink, connRest, started, monitor_tasks, reconnecting,
                   connRetries, connCaller, connOutcome, attempts, lastWait,
                   modemInit, initSent, cnmiSet, cmgfSet, lastUse, capHit,
                   nDrops, nLinkFlips, nUser, loops, rejected>>

\* a failed read or write, or a timeout with nothing received, marks the
\* transport not connected; the modem may have restarted and lost its settings
Disconnect ==
    /\ is_connected
    /\ is_connected' = FALSE /\ sockOpen' = FALSE
    /\ modemInit' = FALSE
    /\ cnmiSet' \in {cnmiSet, FALSE}
    /\ cmgfSet' \in {cmgfSet, FALSE}
    /\ nDrops' = nDrops + 1
    /\ UNCHANGED <<linkUp, connRest, started, monitor_tasks, reconnecting,
                   connRetries, connPc, connCaller, connOutcome, attempts,
                   lastWait, initSent, lastUse, capHit, nLinkFlips, nUser,
                   loops, rejected>>

\* the peer becomes reachable or unreachable
LinkFlip ==
    /\ linkUp' = ~linkUp
    /\ nLinkFlips' = nLinkFlips + 1
    /\ UNCHANGED <<is_connected, sockOpen, connRest, started, monitor_tasks,
                   reconnecting, connRetries, connPc, connCaller, connOutcome,
                   attempts, lastWait, modemInit, initSent, cnmiSet, cmgfSet,
                   lastUse, capHit, nDrops, nUser, loops, rejected>>

\* a session's command enters ATConnection.send_command: when the transport
\* is not connected it opens it itself, with connection.connect() alone
ClientCommand ==
    /\ started
    /\ IF ~is_connected
       THEN IF linkUp
            THEN /\ is_connected' = TRUE /\ sockOpen' = TRUE
                 /\ lastUse' = [sent |-> TRUE, init |-> modemInit]
            ELSE /\ lastUse' = [sent |-> FALSE, init |-> FALSE]
                 /\ UNCHANGED <<is_connected, sockOpen>>
       ELSE /\ lastUse' = [sent |-> TRUE, init |-> modemInit]
            /\ UNCHANGED <<is_connected, sockOpen>>
    /\ nUser' = nUser + 1
    /\ UNCHANGED <<linkUp, connRest, started, monitor_tasks, reconnecting,
                   connRetries, connPc, connCaller, connOutcome, attempts,
                   lastWait, modemInit, initSent, cnmiSet, cmgfSet, capHit,
                   nDrops, nLinkFlips, loops, rejected>>

\* another task calls client.connect() while a call is inside its loop: the
\* head returns False; were the flag not seen, a second loop would start
ConnectWhileInFlight ==
    /\ connPc # "idle"
    /\ IF AlreadyReconnecting
       THEN /\ rejected' = rejected + 1
            /\ UNCHANGED <<reconnecting, loops, connRetries, attempts, connPc>>
       ELSE /\ reconnecting' = TRUE
            /\ loops' = loops + 1
            /\ connRetries' = 0 /\ attempts' = 0
            /\ connPc' = "attempt"
            /\ UNCHANGED rejected
    /\ UNCHANGED <<atLink, connRest, started, monitor_tasks, connCaller,
                   connOutcome, lastWait, modemInit, initSent, cnmiSet,
                   cmgfSet, lastUse, capHit, nDrops, nLinkFlips, nUser>>

\* main's finally cancels the monitor tasks: CancelledError leaves connect
\* through its finally clause and ends connection_monitor
CancelMonitor ==
    /\ "connection_monitor" \in monitor_tasks
    /\ monitor_tasks' = {}
    /\ IF connPc # "idle" /\ connCaller = "monitor"
       THEN /\ reconnecting' = ReconnectingAfter
            /\ loops' = loops - 1
            /\ connPc' = "idle"
            /\ connOutcome' = "cancelled"
       ELSE UNCHANGED <<reconnecting, loops, connPc, connOutcome>>
    /\ UNCHANGED <<atLink, connRest, started, connRetries, connCaller,
                   attempts, lastWait, modemInit, initSent, cnmiSet, cmgfSet,
                   lastUse, capHit, nDrops, nLinkFlips, nUser, rejected>>

(***************************************************************************)
(* WebSocketServer.broadcast and the per-session heartbeat.  A session     *)
(* whose peer has gone stays in the active set, its socket closed, until   *)
(* its handler's recv raises ConnectionClosed or a send removes it.        *)
(***************************************************************************)
hubRest == <<atVars, smsVars, hookVars, urcVars, schedVars, connVars, pduVars,
             lateVars, auth_key, authFrame, forwarded>>

\* the peer of an open session goes away; the handler has not noticed yet
WsPeerGone(s) ==
    /\ ws[s] = "open" /\ pc[s] = "idle"
    /\ ws' = [ws EXCEPT ![s] = "dropped"]
    /\ UNCHANGED <<hubRest, active_connections, lastSent, hubVars>>

\* recv raises ConnectionClosed: the loop ends, finally cancels the heartbeat
\* task and discards the session
WsCleanup(s) ==
    /\ ws[s] = "dropped"
    /\ ws' = [ws EXCEPT ![s] = "none"]
    /\ active_connections' = active_connections \ {s}
    /\ UNCHANGED <<hubRest, lastSent, hubVars>>

\* if websocket.closed
ObservedClosed(active) == {s \in active : ws[s] = "dropped"}
DeadOnlyClosed(closed, failed) == closed
\* dead_connections: the closed sockets and those whose send raised
DeadConnections(closed, failed) == closed \cup failed

\* broadcast(message): failed is the set of open sessions whose send raises
Broadcast(failed) ==
    /\ active_connections # {}
    /\ LET closed == ObservedClosed(active_connections)
           dead == DeadConnections(closed, failed)
       IN  /\ failed \subseteq active_connections \ closed
           /\ lastSent' = [s \in Sessions |->
                             IF s \in active_connections \ (closed \cup failed)
                             THEN "event" ELSE lastSent[s]]
           /\ active_connections' = active_connections \ dead
           /\ bcast' = [closed |-> closed, failed |-> failed]
    /\ nBcast' = nBcast + 1
    /\ UNCHANGED <<hubRest, ws, beat, nBeat>>

\* _heartbeat_loop after its 30 s sleep: _send_heartbeat(websocket); the send
\* raises on a closed socket, and may raise on an open one
Heartbeat(s, ok) ==
    /\ ws[s] \in {"open", "dropped"}
    /\ ws[s] = "dropped" => ~ok
    /\ IF ok
       THEN /\ lastSent' = [lastSent EXCEPT ![s] = "ping"]
            /\ UNCHANGED active_connections
       ELSE /\ active_connections' = active_connections \ {s}
            /\ UNCHANGED lastSent
    /\ beat' = [s |-> s, ok |-> ok]
    /\ nBeat' = nBeat + 1
    /\ UNCHANGED <<hubRest, ws, bcast, nBcast>>

(***************************************************************************)
(* read_incoming_sms: the concatenation header of the user data.  The      *)
(* user data is the byte sequence data_bytes; Python's data_bytes[k] is    *)
(* data[k + 1] here.                                                       *)
(***************************************************************************)
Bytes == 0..MaxByte
\* user-data headers: 8-bit reference (UDHL 5, IEI 0x00, IEDL 3), 16-bit
\* reference (UDHL 6, IEI 0x08, IEDL 4), another element (IEI 0x05), and a
\* header too short to hold a concatenation element
Headers ==
    {<<5, 0, 3, r, t, q>> : r \in Bytes, t \in Bytes, q \in Bytes}
    \cup {<<6, 8, 4, h, l, t, q>> : h \in {0, 1}, l \in Bytes, t \in Bytes,
                                    q \in Bytes}
    \cup {<<6, 5, 4, 0, 1, 0, 2>>, <<2, 112, 0>>}

NoPartial == [some |-> FALSE, reference |-> 0, parts_count |-> 0,
              part_number |-> 0]
\* lines 430-446: pdu_type & 0x40, udh_length >= 6, iei in (0x00, 0x08), then
\* data_bytes[3], data_bytes[4], data_bytes[5]
PartialInfo(udhi, data) ==
    IF udhi /\ data[1] + 1 >= 6 /\ data[2] \in {0, 8}
    THEN [some |-> TRUE, reference |-> data[4], parts_count |-> data[5],
          part_number |-> data[6]]
    ELSE NoPartial

\* one PDU is decoded
ReadIncomingSms(udhi, data) ==
    /\ pduIn' = [udhi |-> udhi, data |-> data]
    /\ partial' = PartialInfo(udhi, data)
    /\ nPdu' = nPdu + 1
    /\ UNCHANGED <<atVars, wsVars, smsVars, hookVars, urcVars, schedVars,
                   connVars, hubVars, lateVars>>

(***************************************************************************)
(* Specifications                                                          *)
(***************************************************************************)
InitBase ==
    /\ is_connected = FALSE /\ sockOpen = FALSE
    /\ command_lock = 0
    /\ pc = [s \in Sessions |-> "idle"]
    /\ cmd = [s \in Sessions |-> "none"]
    /\ response = [s \in Sessions |-> <<>>]
    /\ reads = [s \in Sessions |-> 0]
    /\ ret = [s \in Sessions |-> NoRet]
    /\ reply = [s \in Sessions |-> NoReply]
    /\ wire = <<>> /\ onWire = <<>> /\ modemQ = 0
    /\ nCmds = 0 /\ nUrc = 0 /\ nData = 0
    /\ readUrcs = {} /\ offered = {} /\ lastLine = <<>>
    /\ ring_received = FALSE /\ current_call_state = "idle"
    /\ last_call_number = "none" /\ callNotifs = 0
    /\ callEvents = <<>>
    /\ ws = [s \in Sessions |-> "none"]
    /\ active_connections = {}
    /\ authFrame = [s \in Sessions |-> "none"]
    /\ lastSent = [s \in Sessions |-> "none"]
    /\ forwarded = [s \in Sessions |-> 0]
    /\ partial_messages = <<>> /\ now = 0
    /\ smsNotifs = <<>> /\ smsEvents = <<>>
    /\ fed = <<>> /\ dropped = {}
    /\ nFill = 0 /\ nTicks = 0
    /\ joinRaised = FALSE
    /\ hook_queue = <<>> /\ pending_messages = <<>>
    /\ last_send_time = 0 /\ hookNow = StartTime
    /\ posts = <<>> /\ nSent = 0 /\ firstSendAt = 0 /\ allWithin = TRUE
    /\ doSend = NoTask
    /\ last_call_time = 0
    /\ last_signal_data = NoSignal /\ last_sys_mode = "none" /\ sigNotifs = 0
    /\ notified = FALSE /\ memNotifs = 0
    /\ urcNow = StartTime /\ nLines = 0 /\ nCallTicks = 0
    /\ lastUrc = Urc("none", "", "", 0) /\ prevUrc = Urc("none", "", "", 0)
    /\ gNum = "none" /\ gAt = 0 /\ gEnded = TRUE
    /\ configured = FALSE
    /\ unlock_lte = TRUE /\ unlock_nr = TRUE /\ toggle_airplane = TRUE
    /\ day_enabled = TRUE /\ night_config = UnlockConfig
    /\ last_service_time = 0 /\ is_switching = FALSE
    /\ switch_count = 0 /\ current_mode = "none"
    /\ schedNow = StartTime /\ nTurns = 0
    /\ inNight = FALSE /\ nCrossings = 0
    /\ polled = [creg |-> "none", cereg |-> "none", at |-> 0, gap |-> 0]
    /\ switched = [ran |-> FALSE, mode |-> "none", sent |-> <<>>]
    /\ recovery = [ran |-> FALSE, sent |-> <<>>, done |-> 0, mode |-> "none"]
    /\ schedNotifs = 0
    /\ started = FALSE /\ monitor_tasks = {}
    /\ reconnecting = FALSE /\ connRetries = 0 /\ connPc = "idle"
    /\ connCaller = "none" /\ connOutcome = "none"
    /\ attempts = 0 /\ lastWait = 0
    /\ modemInit = FALSE /\ initSent = <<>>
    /\ cnmiSet = FALSE /\ cmgfSet = FALSE
    /\ lastUse = [sent |-> FALSE, init |-> FALSE]
    /\ capHit = FALSE
    /\ nDrops = 0 /\ nLinkFlips = 0 /\ nUser = 0
    /\ loops = 0 /\ rejected = 0
    /\ bcast = [closed |-> {}, failed |-> {}]
    /\ beat = [s |-> 0, ok |-> TRUE]
    /\ nBcast = 0 /\ nBeat = 0
    /\ pduIn = [udhi |-> FALSE, data |-> <<>>]
    /\ partial = NoPartial /\ nPdu = 0
    /\ invoked = <<>> /\ cmgrSent = 0 /\ pdcpEvents = 0
    /\ dispLine = <<>> /\ raised = FALSE /\ rawData = 0
    /\ pumpAlive = TRUE /\ nDisp = 0
    /\ buildIn = NoBuild /\ buildOut = Built(AtCmd("", 0, <<>>))
    /\ nBuilds = 0

\* the AT arbiter, the URC pump and the modem, no auth key configured
Init ==
    /\ InitBase
    /\ connection_type \in ConnTypes
    /\ serial_method = "DIRECT"
    /\ linkUp \in BOOLEAN
    /\ auth_key = ""

Next ==
    \/ \E s \in Sessions : WsConnect(s)
    \/ \E s \in Sessions : WsFrame(s, "AT")
    \/ \E s \in Sessions : LockGranted(s)
    \/ \E s \in Sessions : GapDone(s)
    \/ \E s \in Sessions : ReceiveStep(s)
    \/ \E s \in Sessions : SettleDone(s)
    \/ \E s \in Sessions : TimeoutStep(s)
    \/ \E s \in Sessions : FailSleepDone(s)
    \/ PumpStep
    \/ \E k \in Terminators : ModemAnswer(k)
    \/ \E l \in DataLens : ModemData(l)
    \/ ModemUrc
    \/ LinkDown

Spec == Init /\ [][Next]_vars

\* the WebSocket sessions in front of an unreachable modem
InitWs ==
    /\ InitBase
    /\ connection_type = "NETWORK"
    /\ serial_method = "DIRECT"
    /\ linkUp = FALSE
    /\ auth_key \in AuthKeys

NextWs ==
    \/ \E s \in Sessions : WsConnect(s)
    \/ \E s \in Sessions, f \in Frames : WsAuth(s, f)
    \/ \E s \in Sessions : WsAuthTimeout(s)
    \/ \E s \in Sessions, f \in LoopFrames : WsFrame(s, f)
    \/ \E s \in Sessions : WsDisconnect(s)

SpecWs == InitWs /\ [][NextWs]_vars

\* the reassembly store fed by the SMS handler
InitSms ==
    /\ InitBase
    /\ connection_type = "NETWORK"
    /\ serial_method = "DIRECT"
    /\ linkUp = FALSE
    /\ auth_key = ""

NextSms ==
    \/ \E p \in 1..NParts : FeedPart(p)
    \/ FeedFiller
    \/ nTicks < MaxTicks /\ Tick(TickStep)

SpecSms == InitSms /\ [][NextSms]_vars

\* the reassembly store while the clock advances in short and long steps
NextTtl ==
    \/ \E p \in 1..NParts : FeedPart(p)
    \/ nFill < MaxTtlFill /\ FeedFiller
    \/ nTicks < MaxTtlTicks /\ \E step \in {PauseStep, TickStep} : Tick(step)

SpecTtl == InitSms /\ [][NextTtl]_vars

\* the reassembly given parts whose numbers the sender chose freely
NextParts ==
    Len(fed) < MaxFeeds /\ \E p \in 0..MaxPartNo : FeedNumbered(p)

SpecParts == InitSms /\ [][NextParts]_vars

\* the webhook channel given a few events over more than one interval
NextHook ==
    \/ (nSent < MaxEvents /\ HookSend)
    \/ (hookNow < StartTime + MaxHookSpan /\ ProcessQueueTurn)

SpecHook == InitSms /\ [][NextHook]_vars

\* the webhook channel given a burst of events
NextBurst ==
    \/ (nSent < MaxBurst /\ HookSend)
    \/ (hookNow < StartTime + MaxBurstTurns /\ ProcessQueueTurn)

SpecBurst == InitSms /\ [][NextBurst]_vars

\* one dispatched message followed through its HTTP attempts
NextSend ==
    \/ (nSent < MaxTasks /\ HookSend)
    \/ (hookNow < StartTime + MaxBurstTurns /\ ProcessQueueTurn)
    \/ \E o \in Outcomes : Attempt(o)
    \/ RetryWaitDone

SpecSend == InitSms /\ [][NextSend]_vars

\* the outcomes of an HTTP attempt followed across two batches
BatchOutcomes == {"ok", "http500", "timeout"}

\* the webhook channel over more than one interval, each dispatched batch
\* followed through its HTTP attempts
NextOnce ==
    \/ (nSent < MaxTasks /\ HookSend)
    \/ (hookNow < StartTime + MaxHookSpan /\ ProcessQueueTurn)
    \/ \E o \in BatchOutcomes : Attempt(o)
    \/ RetryWaitDone

SpecOnce == InitSms /\ [][NextOnce]_vars

\* a serial configuration with either method: the transport is opened, the
\* modem emits unsolicited lines, the pump runs, commands go through the helper
InitTom ==
    /\ InitBase
    /\ connection_type = "SERIAL"
    /\ serial_method \in Methods
    /\ linkUp = TRUE
    /\ auth_key = ""

NextTom ==
    \/ OpenTransport
    \/ \E k \in PortKinds : PortUrc(k)
    \/ PumpReadTurn
    \/ \E captured \in BOOLEAN : HelperCommand(captured)

SpecTom == InitTom /\ [][NextTom]_vars

\* what monitor_socket reads in one recv while the dispatcher is followed:
\* one unsolicited line, or two that arrived together
DispItems ==
    {Urc("RING", "", "", 0), Urc("CLIP", "N1", "", 0),
     Urc("NOCARRIER", "", "", 0), Urc("SMMEMFULL", "", "", 0),
     Urc("CMTI", "", "", 1), Urc("HCSQ", "", "LTE", 40),
     Urc("PDCP", "", "", 14), Urc("PDCP", "", "", 3), Urc("RSSI", "", "", 0)}
DispLines ==
    {<<u>> : u \in DispItems}
    \cup {<<Urc("RING", "", "", 0), Urc("HCSQ", "", "LTE", 40)>>,
          <<Urc("HCSQ", "", "LTE", 40), Urc("RING", "", "", 0)>>,
          <<Urc("CMTI", "", "", 1), Urc("SMMEMFULL", "", "", 0)>>,
          <<Urc("PDCP", "", "", 14), Urc("HCSQ", "", "LTE", 40)>>,
          <<Urc("HCSQ", "", "LTE", 40), Urc("CMTI", "", "", 1)>>,
          <<Urc("RSSI", "", "", 0), Urc("CMTI", "", "", 1)>>}

\* handle() of NewSMSHandler has no try block of its own: _parse_sms and
\* _handle_partial_sms may raise out of it
MayRaise(line) == FirstFrom(Handlers, 1, line) = "NewSms"

\* the pump ends with the first exception
SurvivesNever(fails) == ~fails
\* monitor_socket: `except Exception` logs, sleeps 1 s and loops
Survives(fails) == TRUE

\* one turn of monitor_socket that reads the text `line`: process(), then
\* the raw_data broadcast unless process() raised
MonitorSocketTurn(line, late, fails) ==
    /\ pumpAlive
    /\ fails => MayRaise(line)
    /\ dispLine' = line
    /\ nDisp' = nDisp + 1
    /\ Process(line, late)
    /\ raised' = fails
    /\ rawData' = IF fails THEN rawData ELSE rawData + 1
    /\ pumpAlive' = Survives(fails)
    /\ UNCHANGED <<connection_type, is_connected, sockOpen, linkUp,
                   command_lock, pc, cmd, response, reads, ret, reply, wire,
                   onWire, modemQ, nCmds, envCount, readUrcs, offered,
                   lastLine, wsVars, smsVars, hookVars, schedVars, connVars,
                   hubVars, pduVars, buildVars, cfgVars, urcEnvVars>>

\* the task is cancelled (main's finally): `except asyncio.CancelledError:
\* break`
PumpCancel ==
    /\ pumpAlive
    /\ pumpAlive' = FALSE
    /\ UNCHANGED <<atVars, wsVars, smsVars, hookVars, urcVars, schedVars,
                   connVars, hubVars, pduVars, buildVars, cfgVars, dispLine,
                   raised, rawData, nDisp>>

\* the URC handlers given lines one at a time
NextUrc ==
    \/ \E u \in UrcLines : UrcLine(u)
    \/ CallClockTick

SpecUrc == InitSms /\ [][NextUrc]_vars

\* the pump and the dispatcher, given whole chunks
NextDisp ==
    \/ nDisp < MaxDisp /\ \E line \in DispLines, late \in BOOLEAN, fails \in BOOLEAN :
                           MonitorSocketTurn(line, late, fails)
    \/ PumpCancel

SpecDisp == InitSms /\ [][NextDisp]_vars

\* the lock-command builders, one call at a time
NextBuild ==
    nBuilds < MaxBuilds /\ \E in \in BuildInputs : BuildCommand(in)

SpecBuild == InitSms /\ [][NextBuild]_vars

\* the band-lock controller: configured once, then its loop polls the clock
\* and the modem; AT+CEREG? is answered only when it is asked
NextSched ==
    \/ ScheduleInit
    \/ nCrossings < MaxCrossings /\ ClockCrosses
    \/ /\ nTurns < MaxSchedTurns
       /\ \E creg \in Answers :
            \E cereg \in (IF Registered(creg) THEN {"none"} ELSE Answers),
               cfunOk \in (IF toggle_airplane THEN BOOLEAN ELSE {TRUE}) :
                MonitorTurn(creg, cereg, cfunOk)

SpecSched == InitSms /\ [][NextSched]_vars

\* the service from start-up: main's connect, the connection monitor, the
\* sessions' commands, and the link and the modem as the environment
InitConn ==
    /\ InitBase
    /\ connection_type = "NETWORK"
    /\ serial_method = "DIRECT"
    /\ linkUp \in BOOLEAN
    /\ auth_key = ""

NextConn ==
    \/ MainConnect
    \/ MonitorCheck
    \/ ConnectAttempt
    \/ ConnectWaitDone
    \/ nDrops < MaxDrops /\ Disconnect
    \/ nLinkFlips < MaxLinkFlips /\ LinkFlip
    \/ nUser < MaxUser /\ ClientCommand

SpecConn == InitConn /\ [][NextConn]_vars

\* the event loop runs every task that is ready: a sleep that is over is
\* followed by the code after it
ConnFairness ==
    /\ WF_vars(MonitorCheck)
    /\ WF_vars(ConnectAttempt)
    /\ WF_vars(ConnectWaitDone)

SpecConnLive == SpecConn /\ ConnFairness

\* the reconnect logic with a competing connect call and the shutdown; the
\* sessions' commands are left to SpecConn
NextFlight ==
    \/ MainConnect
    \/ MonitorCheck
    \/ ConnectAttempt
    \/ ConnectWaitDone
    \/ nDrops < MaxDrops /\ Disconnect
    \/ nLinkFlips < MaxLinkFlips /\ LinkFlip
    \/ rejected < MaxRejects /\ ConnectWhileInFlight
    \/ CancelMonitor

SpecFlight == InitConn /\ [][NextFlight]_vars

\* the hub: sessions come and go, events are broadcast, heartbeats are sent
NextHub ==
    \/ \E s \in Sessions : WsConnect(s)
    \/ \E s \in Sessions : WsDisconnect(s)
    \/ \E s \in Sessions : WsPeerGone(s)
    \/ \E s \in Sessions : WsCleanup(s)
    \/ nBcast < MaxBcast /\ \E failed \in SUBSET Sessions : Broadcast(failed)
    \/ nBeat < MaxBeat /\ \E s \in Sessions, ok \in BOOLEAN : Heartbeat(s, ok)

SpecHub == InitSms /\ [][NextHub]_vars

\* the hub behind the auth stage: sessions authenticate or fail to, events
\* are broadcast and heartbeats sent meanwhile
NextGate ==
    \/ \E s \in Sessions : WsConnect(s)
    \/ \E s \in Sessions, f \in Frames : WsAuth(s, f)
    \/ \E s \in Sessions : WsAuthTimeout(s)
    \/ \E s \in Sessions : WsDisconnect(s)
    \/ \E s \in Sessions : WsPeerGone(s)
    \/ \E s \in Sessions : WsCleanup(s)
    \/ nBcast < MaxBcast /\ \E failed \in SUBSET Sessions : Broadcast(failed)
    \/ nBeat < MaxBeat /\ \E s \in Sessions, ok \in BOOLEAN : Heartbeat(s, ok)

SpecGate == InitWs /\ [][NextGate]_vars

\* the PDU decoder given one user-data header at a time
NextPdu ==
    nPdu < MaxPdu /\ \E udhi \in BOOLEAN, data \in Headers :
                        ReadIncomingSms(udhi, data)

SpecPdu == InitSms /\ [][NextPdu]_vars

(***************************************************************************)
(* Properties                                                              *)
(***************************************************************************)
Done(s) == ret[s].state = "done"

\* the callers whose command has been written and whose wait for the
\* response has not ended
InFlight == {s \in Sessions : pc[s] \in {"reading", "settle"}}

C2_UrcsReachDispatcher ==
    ((\A s \in Sessions : pc[s] = "idle") /\ wire = <<>>)
        => readUrcs \subseteq offered

\* C3: each unsolicited line of a transport read is offered to the
\* dispatcher as a line of its own: no offered line holds two of them.
C3_OneLinePerOffer == Cardinality(UrcsOf(lastLine)) <= 1

\* C4: the reassembly store holds at most 100 records in every state.
C4_StoreCap == Len(partial_messages) <= PartialCap

C7_EmptyIsError ==
    \A s \in Sessions :
        (Done(s) /\ ret[s].len = 0)
            => (~ret[s].conn /\ ~reply[s].success)

\* C8: the accumulated response never exceeds 1 MiB, and a response cut at
\* the cap is returned with exactly 1 MiB.
C8_ResponseCap ==
    \A s \in Sessions :
        /\ ByteLen(response[s]) <= MaxResponseSize
        /\ ret[s].len <= MaxResponseSize
        /\ ret[s].outcome = "truncated" => ret[s].len = MaxResponseSize

\* a response was cut at the cap
C8_Witness ==
    \E s \in Sessions :
        Done(s) /\ ret[s].outcome = "truncated" /\ ret[s].len = MaxResponseSize

ValidFrame(s) ==
    JsonLoads(authFrame[s]).dict /\ JsonLoads(authFrame[s]).key = auth_key

\* C10: with an auth key configured, a session is in the active set or has
\* had a frame forwarded to the AT transport only after an auth frame with
\* the configured key; any other first frame closes the socket with nothing
\* forwarded.
C10_AuthGate ==
    auth_key # "" =>
        \A s \in Sessions :
            /\ (s \in active_connections \/ forwarded[s] > 0) => ValidFrame(s)
            /\ (authFrame[s] # "none" /\ ~ValidFrame(s)) =>
                  /\ ws[s] = "closed"
                  /\ forwarded[s] = 0
                  /\ s \notin active_connections

\* one session passed the gate and had a command forwarded, the other sent
\* a wrong key and was closed
C10_Witness ==
    /\ auth_key # ""
    /\ \E s, t \in Sessions :
          /\ s \in active_connections /\ forwarded[s] > 0
          /\ authFrame[t] = WrongAuth /\ ws[t] = "closed"

\* C11: with an auth key configured, a session closed at the auth stage was
\* sent an error JSON before the close.
C11_FailureRepliesError ==
    auth_key # "" =>
        \A s \in Sessions :
            ws[s] = "closed" =>
                lastSent[s] \in {"auth_failed", "auth_timeout", "invalid_auth"}

\* C12: the events of one send interval go out as one POST, the numbered
\* digest of them all: once MaxEvents events given within one interval have
\* all left the channel, exactly that one body was handed to _do_send.
C12_OneDigest ==
    (nSent = MaxEvents /\ allWithin /\ hook_queue = <<>>
                       /\ pending_messages = <<>>)
        => posts = <<CombineMessages([n \in 1..MaxEvents |-> Job(n)])>>

\* C13: the jobs accepted and not yet dispatched, queue and pending list
\* together, never exceed 1000.
C13_BacklogCap ==
    Len(hook_queue) + Len(pending_messages) <= max_pending_messages

\* C14: a message gets at most 3 HTTP attempts, none after a success, the
\* third failure drops it, and the waits between attempts are 1 s and 2 s.
C14_RetryPolicy ==
    /\ Len(doSend.log) <= max_retries
    /\ \A i \in 1..Len(doSend.log) :
          doSend.log[i] = "ok" =>
              (i = Len(doSend.log) /\ doSend.result = "sent")
    /\ doSend.result = "dropped" =>
          (Len(doSend.log) = max_retries
              /\ \A i \in 1..Len(doSend.log) : doSend.log[i] # "ok")
    /\ Len(doSend.waits) <= max_retries - 1
    /\ \A i \in 1..Len(doSend.waits) : doSend.waits[i] = i

\* two 500 replies and then a 200 delivered the message at the third attempt
C14_Witness ==
    /\ doSend.log = <<"http500", "http500", "ok">>
    /\ doSend.result = "sent"
    /\ doSend.waits = <<1, 2>>

\* C15: every attempt that does not succeed is retried: a finished task
\* either succeeded or made 3 attempts.
C15_EveryFailureRetried ==
    doSend.state = "done" =>
        \/ doSend.log[Len(doSend.log)] = "ok"
        \/ Len(doSend.log) = max_retries

\* a line was given to the dispatcher on its own in this step
Handled == nLines' = nLines + 1

\* C16: a +CLIP line produces a ringing notification exactly when no +CLIP
\* has notified since the last call end, or it carries another number than
\* the last one that notified, or more than 30 s passed since that one.
C16_CallDedup ==
    [][(Handled /\ lastUrc'.kind = "CLIP")
          => IF \/ gEnded
                \/ lastUrc'.arg.num # gNum
                \/ urcNow - gAt > call_timeout
             THEN callNotifs' = callNotifs + 1
             ELSE callNotifs' = callNotifs]_vars

\* a second +CLIP with the same number came 15 s after the first, with no
\* call end between them, and there is one notification
C16_Witness ==
    /\ nLines = 2 /\ nCallTicks = 1
    /\ prevUrc.kind = "CLIP" /\ lastUrc = prevUrc
    /\ callNotifs = 1

\* C17: a signal sample notifies exactly when there is no previous sample,
\* or its RSRP differs from the last notified one by at least 1 dB, or its
\* system mode differs; last_signal_data and last_sys_mode become the sample
\* when it notifies and are left alone when it does not.
C17_SignalTrigger ==
    [][(Handled /\ lastUrc'.kind \in {"HCSQ", "CERSSI"})
          => IF \/ last_signal_data = NoSignal
                \/ Abs(RsrpOf(lastUrc') - last_signal_data.rsrp) >= 1
                \/ SysModeOf(lastUrc') # last_sys_mode
             THEN /\ sigNotifs' = sigNotifs + 1
                  /\ last_signal_data' = [sys_mode |-> SysModeOf(lastUrc'),
                                          rsrp |-> RsrpOf(lastUrc')]
                  /\ last_sys_mode' = SysModeOf(lastUrc')
             ELSE UNCHANGED <<sigNotifs, last_signal_data, last_sys_mode>>]_vars

\* two equal ^HCSQ samples back to back gave one notification
C17_Witness ==
    /\ nLines = 2
    /\ prevUrc.kind = "HCSQ" /\ lastUrc = prevUrc
    /\ sigNotifs = 1

\* C18: at most one MEMORY_FULL notification, given with the first
\* memory-full line; the notified flag stays set.
C18_MemoryFullOnce ==
    /\ memNotifs <= 1
    /\ notified <=> memNotifs = 1
    /\ lastUrc.kind \in MemKinds => notified

\* two memory-full lines were handled and one notification was given
C18_Witness ==
    /\ prevUrc.kind \in MemKinds /\ lastUrc.kind \in MemKinds
    /\ memNotifs = 1


\* C19: the switch to a night mode with LTE type 3, bands "3,41", NR type 0,
\* unlock_nr and toggle_airplane set sends exactly AT+CFUN=0,
\* AT^LTEFREQLOCK=3,0,2,"3,41", AT^NRFREQLOCK=0 and AT+CFUN=1, in this order.
C19_NightSequence ==
    (/\ switched.ran /\ switched.mode = "night"
     /\ night_config = LockConfig(3, <<"3", "41">>, 0, <<>>)
     /\ unlock_nr /\ toggle_airplane)
    => switched.sent = <<Cfun(0), AtCmd("AT^LTEFREQLOCK", 3, <<"3", "41">>),
                         NrUnlock, Cfun(1)>>

\* an answer that reports a registered state: <stat> is 1 or 5
ShowsRegistered(answer) == answer \in {"0,1", "0,5"}
Turned == nTurns' = nTurns + 1
\* the poll of this iteration saw no registration, the configured timeout or
\* more after the controller last saw service
NoServiceFor ==
    /\ ~ShowsRegistered(polled'.creg) /\ ~ShowsRegistered(polled'.cereg)
    /\ polled'.gap >= timeout
Has(sent, c) == \E i \in 1..Len(sent) : sent[i] = c
\* the scripted sequence under the unlock settings
UnlockSequence ==
    (IF toggle_airplane THEN <<Cfun(0)>> ELSE <<>>)
    \o (IF unlock_lte THEN <<LteUnlock>> ELSE <<>>)
    \o (IF unlock_nr THEN <<NrUnlock>> ELSE <<>>)
    \o (IF toggle_airplane THEN <<Cfun(1)>> ELSE <<>>)
\* a recovery comes no sooner than one timeout after the one before it
Spaced == (recovery'.ran /\ recovery.done > 0)
              => polled'.at - recovery.done >= timeout

C21_ControllerDriven == started => "monitor_loop" \in monitor_tasks

\* C22: after every successful reconnect the modem is reinitialized before
\* further use: a command that is sent goes to a transport on which
\* _init_at_config has run since it was opened.
C22_ReinitBeforeUse == lastUse.sent => lastUse.init

Failed == connRetries' = connRetries + 1
\* C23: within one connect call the wait after the k-th consecutive failed
\* open is 5*k seconds for k = 1, 2, 3 and 60 seconds afterwards, and the
\* call gives up with an error at the 100th failed attempt, never making a
\* 101st.
C23_Backoff ==
    [][/\ Failed /\ connRetries' <= 3 => connPc' = "wait" /\ lastWait' = 5 * connRetries'
       /\ Failed /\ connRetries' > 3 /\ connRetries' < 100
              => connPc' = "wait" /\ lastWait' = 60
       /\ Failed /\ connRetries' = 100
              => connPc' = "idle" /\ connOutcome' = "error" /\ attempts' = 100
       /\ attempts' <= 100]_vars

\* a connect call has given up: 100 attempts, all failed
C23_Witness ==
    /\ connOutcome = "error" /\ connRetries = 100 /\ attempts = 100
    /\ lastWait = 60 /\ connPc = "idle"

\* C24: if opening the transport succeeds from some point on, every time the
\* running service finds the transport not connected the monitor restores
\* is_connected, also after a connect call of its own ended at the cap.
C24_ReconnectLiveness ==
    <>[]linkUp => []((started /\ ~is_connected) => <>is_connected)

\* the monitor restored the connection after one of its calls hit the cap
C24_Witness ==
    /\ started /\ capHit /\ is_connected
    /\ connCaller = "monitor" /\ connOutcome = "ok" /\ nDrops >= 1

Broadcasting == nBcast' = nBcast + 1
Beating == nBeat' = nBeat + 1
\* C25: broadcast sends the event to every session of the active set whose
\* socket is open, and removes from the set exactly the sessions whose socket
\* is seen closed or whose send fails; a session whose send succeeded stays.
\* The heartbeat removes a session whose "ping" send fails.
C25_BroadcastPrunes ==
    [][/\ Broadcasting =>
           \A s \in Sessions :
               /\ (s \in active_connections /\ ws[s] = "open"
                      /\ s \notin bcast'.failed)
                   => lastSent'[s] = "event" /\ s \in active_connections'
               /\ (s \in active_connections
                      /\ (ws[s] # "open" \/ s \in bcast'.failed))
                   => s \notin active_connections' /\ lastSent'[s] = lastSent[s]
               /\ s \notin active_connections
                   => s \notin active_connections' /\ lastSent'[s] = lastSent[s]
       /\ Beating /\ ~beat'.ok => beat'.s \notin active_connections'
       /\ Beating /\ beat'.ok =>
           active_connections' = active_connections /\ lastSent'[beat'.s] = "ping"]_vars

\* one broadcast reached a session, found another closed, and removed it only
C25_Witness ==
    /\ nBcast >= 1
    /\ \E s, t \in Sessions :
          /\ s # t /\ lastSent[s] = "event" /\ s \in active_connections
          /\ t \in bcast.closed /\ t \notin active_connections

\* the sequence entered airplane mode and left it as its last command
Paired(sent) == Has(sent, Cfun(0)) => sent[Len(sent)] = Cfun(1)
\* C26: every airplane-mode entry is paired with an exit: a band-lock
\* sequence that has sent AT+CFUN=0 sends AT+CFUN=1 before it ends, for every
\* lock configuration.
C26_AirplanePaired ==
    /\ switched.ran => Paired(switched.sent)
    /\ recovery.ran => Paired(recovery.sent)

\* C27: every partial descriptor the decoder produces has
\* 1 <= part_number <= parts_count; a header that violates this is not
\* turned into a partial.
C27_PartNumberInRange ==
    partial.some => 1 <= partial.part_number
                    /\ partial.part_number <= partial.parts_count

\* the PDU carries a user-data header whose first element is iei
Carries(iei) == nPdu > 0 /\ pduIn.udhi /\ pduIn.data[2] = iei
\* C28: for element 0x08 the reference is the 16-bit value of the two
\* reference bytes and total and seq are the two bytes after them; for
\* element 0x00 reference, total and seq are the three data bytes.
C28_ConcatFields ==
    /\ Carries(8) =>
          /\ partial.some
          /\ partial.reference = 256 * pduIn.data[4] + pduIn.data[5]
          /\ partial.parts_count = pduIn.data[6]
          /\ partial.part_number = pduIn.data[7]
    /\ Carries(0) =>
          /\ partial.some
          /\ partial.reference = pduIn.data[4]
          /\ partial.parts_count = pduIn.data[5]
          /\ partial.part_number = pduIn.data[6]

\* a part was handed to _handle_partial_sms in this step
Inserted == fed' # fed \/ nFill' # nFill
TooOld(rec, t) == t - rec.timestamp > PartialTtl
\* C29: every insertion deletes the records whose receive time is more than
\* 3600 s in the past before it stores the part, so none older remains after
\* it; a record's receive time is the time of its first part and a later
\* part does not change it.
C29_TtlEviction ==
    [][Inserted =>
         LET old == partial_messages
             new == partial_messages'
         IN /\ \A j \in 1..Len(new) : ~TooOld(new[j], now')
            /\ \A i \in 1..Len(old) :
                  TooOld(old[i], now) =>
                     \A j \in 1..Len(new) :
                        new[j].key = old[i].key =>
                           /\ new[j].timestamp = now
                           /\ Cardinality(DOMAIN new[j].parts) = 1
            /\ \A i \in 1..Len(old), j \in 1..Len(new) :
                  (new[j].key = old[i].key /\ ~TooOld(old[i], now)) =>
                     new[j].timestamp = old[i].timestamp
            /\ \A j \in 1..Len(new) :
                  new[j].key \notin KeysOf(old) => new[j].timestamp = now]_vars

\* another message was deleted for its age when the first part of the watched
\* one arrived, and the second part of the watched one arrived later without
\* changing the record's receive time
C29_Witness ==
    /\ nFill = 1 /\ dropped = {<<"F", 1>>}
    /\ Len(fed) = 2
    /\ \E i \in 1..Len(partial_messages) :
          /\ partial_messages[i].key = Watched
          /\ Cardinality(DOMAIN partial_messages[i].parts) = 2
          /\ partial_messages[i].timestamp < now

\* the line handled in this step ends a call
EndHandled == Handled /\ lastUrc'.kind \in {"CEND", "NOCARRIER"}
\* C30: a ^CEND: or NO CARRIER line broadcasts an "ended" event and hands
\* over a CALL notification exactly when a caller number is recorded, and in
\* both cases leaves the handler idle with the number cleared, the time zero
\* and ring_received false; RING, +CLIP with a number, NO CARRIER on a fresh
\* handler give one "ringing" event, one "ended" event and two notifications.
C30_CallEnd ==
    [][/\ EndHandled =>
            /\ IF last_call_number # "none"
               THEN /\ callEvents' = Append(callEvents, "ended")
                    /\ callNotifs' = callNotifs + 1
               ELSE UNCHANGED <<callEvents, callNotifs>>
            /\ current_call_state' = "idle"
            /\ last_call_number' = "none"
            /\ last_call_time' = 0
            /\ ring_received' = FALSE
       /\ (/\ EndHandled /\ nLines = 2
           /\ prevUrc.kind = "RING" /\ lastUrc.kind = "CLIP") =>
            /\ callEvents' = <<"ringing", "ended">>
            /\ callNotifs' = 2]_vars

\* RING, +CLIP and a call end were handled in this order: both events are
\* out, two notifications were handed over and the handler is idle again
C30_Witness ==
    /\ nLines = 3
    /\ prevUrc.kind = "CLIP" /\ lastUrc.kind = "NOCARRIER"
    /\ callEvents = <<"ringing", "ended">>
    /\ callNotifs = 2
    /\ current_call_state = "idle" /\ last_call_number = "none"

\* the pump gave a text to the dispatcher in this step
Dispatched == nDisp' = nDisp + 1
\* the handler the fixed order Call, MemoryFull, NewSms, Signal, Pdcp gives
FirstInOrder(line) ==
    IF CallCanHandle(line) THEN <<"Call">>
    ELSE IF MemCanHandle(line) THEN <<"MemoryFull">>
    ELSE IF NewSmsCanHandle(line) THEN <<"NewSms">>
    ELSE IF SignalCanHandle(line) THEN <<"Signal">>
    ELSE IF PdcpCanHandle(line) THEN <<"Pdcp">>
    ELSE <<>>
\* C31: for each line, handle() runs on at most one handler, the first in
\* the order Call, MemoryFull, NewSms, Signal, Pdcp whose can_handle accepts
\* it; the state of every other handler is left alone, and a line accepted by
\* none changes no handler state.
C31_FirstHandlerOnly ==
    [][Dispatched =>
         /\ Len(invoked') <= 1
         /\ invoked' = FirstInOrder(dispLine')
         /\ invoked' # <<"Call">> => UNCHANGED <<callVars, last_call_time>>
         /\ invoked' # <<"MemoryFull">> => UNCHANGED memVars
         /\ invoked' # <<"NewSms">> => UNCHANGED cmgrSent
         /\ invoked' # <<"Signal">> => UNCHANGED sigVars
         /\ invoked' # <<"Pdcp">> => UNCHANGED pdcpEvents]_vars

\* a text holding RING and ^HCSQ, which the call and the signal handler both
\* accept, went to the call handler alone and left the signal handler alone
C31_Witness ==
    /\ nDisp = 1
    /\ dispLine = <<Urc("HCSQ", "", "LTE", 40), Urc("RING", "", "", 0)>>
    /\ invoked = <<"Call">>
    /\ ring_received /\ sigNotifs = 0

\* the mode the wall clock asks for at this poll
TargetMode ==
    IF inNight THEN "night" ELSE IF day_enabled THEN "day" ELSE "none"
\* C32: a poll runs the scripted sequence for a day or night mode exactly
\* when the target mode differs from the last applied mode; a poll whose
\* target mode is the applied one sends no command for a switch.
C32_OnModeChangeOnly ==
    [][Turned =>
         /\ TargetMode \in {"day", "night"} =>
               /\ switched'.ran <=> TargetMode # current_mode
               /\ current_mode' = TargetMode
         /\ TargetMode = current_mode =>
               /\ ~switched'.ran /\ switched'.sent = <<>>
               /\ switch_count' = switch_count + (IF recovery'.ran THEN 1 ELSE 0)]_vars

\* the night lock was applied at one poll and a later poll with the same
\* target sent nothing
C32_Witness ==
    /\ nTurns >= 2 /\ inNight
    /\ current_mode = "night" /\ switched.mode = "night"
    /\ ~switched.ran /\ switched.sent = <<>>
    /\ switch_count = 1

\* the lists of the builder call, split at the commas
InBands == buildIn.bands.parts
InArfcns == buildIn.arfcns.parts
InPcis == buildIn.pcis.parts
\* the band and ARFCN lists (for type 2 also the PCI list) are empty or differ
\* in length
ListsMismatch ==
    \/ InBands = <<>> \/ InArfcns = <<>> \/ Len(InBands) # Len(InArfcns)
    \/ buildIn.lock_type = 2 /\ (InPcis = <<>> \/ Len(InArfcns) # Len(InPcis))
\* some (band, arfcn) pair lies outside the range the table gives for the band
PairOutOfRange ==
    LET ranges == IF buildIn.rat = "lte" THEN LteBandRanges ELSE NrBandRanges
    IN  \E i \in 1..Min(Len(InBands), Len(InArfcns)) :
           \E r \in ranges :
              /\ r[1] = IntOf(InBands[i])
              /\ ~(r[2] <= IntOf(InArfcns[i]) /\ IntOf(InArfcns[i]) <= r[3])
IsUnlock(c) == c.arg = 0 /\ c.bands = <<>> /\ c.arfcns = <<>>
\* C33: for lock type 1 or 2 a builder returns the unlock form whenever the
\* lists are empty or differ in length or a (band, arfcn) pair is out of the
\* table's range, and otherwise the typed lock command with the list length
\* and the lists.
C33_BuilderFallback ==
    (nBuilds > 0 /\ buildIn.lock_type \in {1, 2}) =>
        /\ ~buildOut.raised
        /\ IF ListsMismatch \/ PairOutOfRange
           THEN IsUnlock(buildOut.cmd)
           ELSE /\ buildOut.cmd.arg = buildIn.lock_type
                /\ buildOut.cmd.n = Len(InBands)
                /\ buildOut.cmd.bands = InBands
                /\ buildOut.cmd.arfcns = InArfcns

\* C34: at most one retry loop of connect runs at any time and the in-flight
\* flag is set exactly while it runs; a connect call made meanwhile returns
\* at once and touches neither the transport nor the running loop; the
\* monitor starts a reconnect only with the flag clear; every exit of the
\* loop (success, error, cancellation) clears the flag.
C34_SingleFlight ==
    /\ [](loops <= 1 /\ (reconnecting <=> loops = 1)
                     /\ (connPc # "idle" <=> loops = 1))
    /\ [][/\ rejected' = rejected + 1 =>
              UNCHANGED <<atLink, reconnecting, loops, connPc, connRetries,
                          attempts>>
          /\ (connPc = "idle" /\ connPc' # "idle" /\ connCaller' = "monitor")
                => ~reconnecting
          /\ (connPc # "idle" /\ connPc' = "idle") => ~reconnecting']_vars

\* a call made while the monitor's loop was running was turned away, and
\* the loop was later cancelled with the flag cleared
C34_Witness ==
    /\ rejected = 1 /\ connCaller = "monitor"
    /\ connOutcome = "cancelled" /\ attempts >= 1
    /\ ~reconnecting /\ loops = 0

\* the last thing sent to session s is a broadcast event or a heartbeat ping
GotHubTraffic(s) == lastSent[s] \in {"event", "ping"}

\* C35: with an auth key configured, every session in the active set has
\* sent an auth frame with the configured key, a session that has not (no
\* frame yet, a failed or timed-out authentication) has received neither a
\* broadcast event nor a heartbeat ping, and a session whose handler has
\* ended is not in the active set.
C35_ActiveAuthenticated ==
    \A s \in Sessions :
        /\ auth_key # "" =>
              /\ s \in active_connections => ValidFrame(s)
              /\ GotHubTraffic(s) => ValidFrame(s)
        /\ ws[s] \in {"none", "closed"} => s \notin active_connections

\* with a key configured, one session got an event in the active set while
\* the other was turned away at the auth stage, and a heartbeat was sent
C35_Witness ==
    /\ auth_key # "" /\ nBcast >= 1 /\ nBeat >= 1
    /\ \E s, t \in Sessions :
          /\ s \in active_connections /\ lastSent[s] = "event"
          /\ ws[t] = "closed"
          /\ lastSent[t] \in {"auth_failed", "auth_timeout"}

\* the part numbers stored for the message <<"B", 1>>
StoredParts ==
    IF <<"B", 1>> \in KeysOf(partial_messages)
    THEN DOMAIN partial_messages[IndexOf(partial_messages, <<"B", 1>>)].parts
    ELSE {}

\* C36: a call of _handle_partial_sms emits a combined event or a
\* notification only when, with its part, every part number 1..total of the
\* record is stored; when the count of distinct stored numbers reaches total
\* with a number of 1..total missing nothing is emitted; a repeated part
\* number replaces the stored text and leaves the count as it was.
C36_EventNeedsAllParts ==
    [][Len(fed') = Len(fed) + 1 =>
          LET p == fed'[Len(fed')]
              after == StoredParts \cup {p}
          IN /\ (smsEvents' # smsEvents \/ smsNotifs' # smsNotifs) =>
                    (1..FeedTotal) \subseteq after
             /\ (Cardinality(after) = FeedTotal
                    /\ ~((1..FeedTotal) \subseteq after)) =>
                    /\ UNCHANGED <<smsEvents, smsNotifs>>
                    /\ StoredParts' = after
             /\ (p \in StoredParts /\ StoredParts' # {}) =>
                    /\ StoredParts' = StoredParts
                    /\ partial_messages'[IndexOf(partial_messages',
                                                 <<"B", 1>>)].parts[p]
                          = <<"text", p, Len(fed')>>]_vars

\* a message was delivered combined, and a later record reached its count
\* with part 0 in place of a part of 1..total: nothing more was emitted
C36_Witness ==
    /\ Len(smsEvents) = 1 /\ Len(smsNotifs) = 1
    /\ joinRaised
    /\ 0 \in StoredParts /\ Cardinality(StoredParts) = FeedTotal

\* the jobs, by number, in a dispatched batch and on a list of jobs
JobsOfPost(post) ==
    {n \in 1..nSent :
        \E i \in 1..Len(post.items) :
            post.items[i] = IF post.form = "single" THEN <<"event", n>>
                            ELSE <<i, <<"event", n>>>>}
JobsOn(list) == {n \in 1..nSent : \E i \in 1..Len(list) : list[i] = Job(n)}

\* C37: every job is in at most one dispatched batch and a dispatched job
\* is neither on the pending list nor on the queue; the turn that hands a
\* batch to the sender leaves the pending list empty; a step of the sender
\* (an attempt that fails, gives up or succeeds, a retry wait) changes
\* neither the pending list nor the queue nor the batches.
C37_AtMostOnce ==
    /\ [](\A n \in 1..nSent :
            /\ Cardinality({k \in 1..Len(posts) : n \in JobsOfPost(posts[k])}) <= 1
            /\ (\E k \in 1..Len(posts) : n \in JobsOfPost(posts[k])) =>
                  n \notin JobsOn(pending_messages) \cup JobsOn(hook_queue))
    /\ [][/\ posts' # posts => pending_messages' = <<>>
          /\ doSend' # doSend /\ posts' = posts =>
                UNCHANGED <<pending_messages, hook_queue>>]_vars

\* the first batch was dropped after three failed attempts while the next
\* job waits on the pending list, which holds that job alone
C37_Witness ==
    /\ Len(posts) = 1 /\ JobsOfPost(posts[1]) = {1}
    /\ doSend.result = "dropped" /\ Len(doSend.log) = max_retries
    /\ pending_messages = <<Job(2)>>

\* C38: a turn of the pump in which the handler raises broadcasts no
\* raw_data for its line and leaves the pump running, so that the next line
\* can still be given to the dispatcher; the pump ends only in a step that
\* is not a turn of its own, its cancellation.
C38_PumpSurvives ==
    /\ [][/\ (Dispatched /\ raised') => (rawData' = rawData /\ pumpAlive')
          /\ (Dispatched /\ ~raised') => rawData' = rawData + 1
          /\ (pumpAlive /\ ~pumpAlive') => ~Dispatched]_vars
    /\ []((pumpAlive /\ nDisp < MaxDisp) =>
             ENABLED (\E line \in DispLines :
                         MonitorSocketTurn(line, FALSE, FALSE)))

\* the new-SMS handler raised on one line, and a later line reached the
\* call handler and was broadcast as raw_data
C38_Witness ==
    /\ nDisp = 2 /\ rawData = 1 /\ ~raised
    /\ invoked = <<"Call">> /\ cmgrSent = 1
    /\ pumpAlive

\* a lock command, one with a lock type other than 0, among the commands
SendsLock(sent) ==
    \E i \in 1..Len(sent) :
        sent[i].name \in {"AT^LTEFREQLOCK", "AT^NRFREQLOCK"} /\ sent[i].arg # 0

\* C39: a recovery does not change current_mode: in the iteration that runs
\* it the mode is what the switching part of the iteration left, and from
\* then on, while the target mode is the mode held at the recovery, no
\* iteration runs a switch or sends a lock command, so the unlock of the
\* recovery stays in force until the target mode changes.
C39_RecoveryKeepsMode ==
    /\ [](recovery.mode # "none" => current_mode = recovery.mode)
    /\ [][Turned =>
            /\ (recovery'.ran /\ ~switched'.ran) => current_mode' = current_mode
            /\ (recovery'.ran /\ switched'.ran) => current_mode' = TargetMode
            /\ (recovery.mode # "none" /\ TargetMode = recovery.mode) =>
                  /\ ~switched'.ran /\ ~SendsLock(switched'.sent)
                  /\ ~SendsLock(recovery'.sent)
                  /\ recovery'.mode = recovery.mode]_vars

\* a recovery ran while the night lock was applied, and a later iteration
\* in the same night, with service back, sent nothing
C39_Witness ==
    /\ recovery.mode = "night" /\ current_mode = "night" /\ inNight
    /\ ~recovery.ran /\ recovery.done > 0
    /\ ~switched.ran /\ switched.sent = <<>>
    /\ ShowsRegistered(polled.creg)

\* C40: with the serial type and the helper method the pump never reads:
\* no unsolicited line is offered to the dispatcher, no handler runs, no
\* raw_data is broadcast, whatever the modem has emitted; an unsolicited
\* line is seen only in the output a command captured.
C40_HelperPumpSilent ==
    /\ [](serial_method = "TOM_MODEM" =>
            /\ ~PumpCanRead
            /\ offered = {} /\ lastLine = <<>>
            /\ invoked = <<>> /\ ~ring_received /\ callNotifs = 0
            /\ rawData = 0)
    /\ [][(serial_method = "TOM_MODEM" /\ readUrcs' # readUrcs) =>
             nCmds' = nCmds + 1]_vars

\* under the helper method the modem has emitted two unsolicited lines, a
\* command captured the first of them and the other is still unread
C40_Witness ==
    /\ serial_method = "TOM_MODEM" /\ is_connected
    /\ nUrc = 2 /\ readUrcs = {1} /\ wire # <<>>
    /\ offered = {} /\ rawData = 0
====
